---- MODULE Spec2Model ----
(***************************************************************************)
(* A model of the TEMP DROP decoder of nhc_recon_parser                    *)
(* (src/src/nhc_recon_parser/parser.py) and of the coordinate verification *)
(* of stac_catalog (src/src/stac_catalog/main.py).                         *)
(*                                                                         *)
(* Text is modelled as it is in the program: a line is a sequence of       *)
(* one-character strings, split() and the slices are computed on it.       *)
(* A Python float is a sign and a magnitude in tenths (every float the     *)
(* decoder produces is a whole number of tenths), so that -0.0 and 0.0     *)
(* are two values that compare equal, as in Python.                        *)
(* The alphabet of the model is the digits, space, + - _ and the capital   *)
(* letters the markers use: on it float() accepts what int() accepts.      *)
(***************************************************************************)
EXTENDS Integers, Sequences, FiniteSets, TLC

VARIABLES pc, uri, message_date, i, line, part_a_active, part_b_active,
          parsed_data, exc, warnings, stac_item, directory, verified,
          group, decoded,
          message, second, urls, attempted, successful

vars == <<pc, uri, message_date, i, line, part_a_active, part_b_active,
          parsed_data, exc, warnings, stac_item, directory, verified,
          group, decoded,
          message, second, urls, attempted, successful>>

\* the state of the callers of parse_temp_drop: the text that is decoded
\* twice and the second result; the identifiers that the archive page
\* lists, those attempted, and the count of the items uploaded
callers == <<message, second, urls, attempted, successful>>

CallersIdle ==
    /\ message = <<>>
    /\ second = <<>>
    /\ urls = <<>>
    /\ attempted = <<>>
    /\ successful = 0

-----------------------------------------------------------------------------
(* Bounds of the model *)

\* the longest message, in non-empty lines (the two header lines included)
MaxLines == 4

-----------------------------------------------------------------------------
(* Python values *)

None == <<>>
Some(x) == <<x>>

Min(a, b) == IF a < b THEN a ELSE b

\* F applied to the value of v: v is computed once, where it is bound
With(v, F(_)) == CHOOSE r \in {F(x) : x \in {v}} : TRUE

DigitChars == <<"0", "1", "2", "3", "4", "5", "6", "7", "8", "9">>
Digits == {DigitChars[k] : k \in 1..10}

\* the value of a digit character
DigitVal(c) == (CHOOSE k \in 1..10 : DigitChars[k] = c) - 1

\* s[a:b] and s[a:] of a Python string: never an error, clipped to the string
Slice(s, a, b) ==
    IF a >= Min(b, Len(s)) THEN <<>> ELSE SubSeq(s, a + 1, Min(b, Len(s)))

SliceFrom(s, a) == Slice(s, a, Len(s))

\* s.startswith(p)
StartsWith(s, p) == Len(s) >= Len(p) /\ SubSeq(s, 1, Len(p)) = p

RECURSIVE LStrip(_)
LStrip(s) == IF s # <<>> /\ Head(s) = " " THEN LStrip(Tail(s)) ELSE s

RECURSIVE RStrip(_)
RStrip(s) ==
    IF s # <<>> /\ s[Len(s)] = " " THEN RStrip(SubSeq(s, 1, Len(s) - 1)) ELSE s

\* s.strip()
Strip(s) == RStrip(LStrip(s))

\* the runs of s between separators: the piece that starts at index k
\* stops before the first separator at or after k
PieceFrom(s, k, sep) ==
    SubSeq(s, k, CHOOSE e \in (k - 1)..Len(s) :
                     /\ \A m \in k..e : s[m] # sep
                     /\ (e = Len(s) \/ s[e + 1] = sep))

\* the n-th smallest element of a set of numbers
Nth(S, n) == CHOOSE k \in S : Cardinality({j \in S : j < k}) = n - 1

\* s.split(): the maximal runs of non-space characters
Split(s) ==
    With({k \in 1..Len(s) : s[k] # " " /\ (k = 1 \/ s[k - 1] = " ")},
         LAMBDA starts :
             [n \in 1..Cardinality(starts) |-> PieceFrom(s, Nth(starts, n), " ")])

\* the digits of a decimal literal with its underscores removed
DropUnderscores(s) == SelectSeq(s, LAMBDA c : c # "_")

\* the number the first n digits of s write
RECURSIVE DecimalPrefix(_, _)
DecimalPrefix(s, n) ==
    IF n = 0 THEN 0 ELSE 10 * DecimalPrefix(s, n - 1) + DigitVal(s[n])

DecimalValue(s) == DecimalPrefix(s, Len(s))

\* a decimal literal: digits, single underscores allowed between two digits
IsDecimalLiteral(s) ==
    /\ s # <<>>
    /\ \A k \in 1..Len(s) : s[k] \in Digits \cup {"_"}
    /\ s[1] \in Digits
    /\ s[Len(s)] \in Digits
    /\ \A k \in 1..(Len(s) - 1) : ~(s[k] = "_" /\ s[k + 1] = "_")

\* the literal of int(s) and float(s): blanks stripped, an optional sign
SignOf(s) == LET t == Strip(s) IN t # <<>> /\ Head(t) = "-"

Unsigned(s) ==
    LET t == Strip(s)
    IN IF t # <<>> /\ Head(t) \in {"+", "-"} THEN Tail(t) ELSE t

\* int(s): ok is FALSE for a ValueError
PyInt(s) ==
    With(Unsigned(s), LAMBDA u :
        IF IsDecimalLiteral(u)
        THEN With(DecimalValue(DropUnderscores(u)), LAMBDA m :
                 [ok |-> TRUE, val |-> IF SignOf(s) THEN 0 - m ELSE m])
        ELSE [ok |-> FALSE, val |-> 0])

\* a Python float, in tenths: -0.0 is [neg |-> TRUE, tenths |-> 0]
Float(neg, tenths) == [neg |-> neg, tenths |-> tenths]

\* a == b on floats
FloatEq(a, b) == a.tenths = b.tenths /\ (a.tenths = 0 \/ a.neg = b.neg)

\* -a, a * -1
FloatNeg(a) == Float(~a.neg, a.tenths)

\* float(s) on the model's alphabet: units is the magnitude of the literal
PyFloat(s) ==
    With(Unsigned(s), LAMBDA u :
        IF IsDecimalLiteral(u)
        THEN [ok |-> TRUE, neg |-> SignOf(s),
              units |-> DecimalValue(DropUnderscores(u))]
        ELSE [ok |-> FALSE, neg |-> FALSE, units |-> 0])

\* float(n) of an int n, divided by 10.0
IntOverTen(n) == IF n < 0 THEN Float(TRUE, 0 - n) ELSE Float(FALSE, n)

\* the result of a call: a returned value, or the exception it raised
Returned(v) == [exc |-> "none", msg |-> "", val |-> v]
Raised(type, msg) == [exc |-> type, msg |-> msg, val |-> None]

-----------------------------------------------------------------------------
(* Group decoders *)

\* Faulty variants of the decoders, which the properties of the decoders
\* tell from the decoders: the offset of the leading digit 9 forgotten,
\* the sign digit ignored, the direction 999 kept.
decode_pressure_height_no_offset(g) ==
    IF Len(g) # 5 THEN Raised("ValueError", "length")
    ELSE With(PyFloat(g), LAMBDA f :
             IF ~PyInt(<<g[1]>>).ok \/ ~f.ok THEN Raised("ValueError", "digit")
             ELSE IF PyInt(<<g[1]>>).val \in 6..8
                  THEN Returned(<<None, Some(Float(f.neg, f.units * 100))>>)
                  ELSE Returned(<<Some(Float(f.neg, f.units)), None>>))

decode_temp_dewpoint_unsigned(g) ==
    IF Len(g) # 5 THEN Raised("ValueError", "length")
    ELSE With(PyInt(Slice(g, 0, 3)), LAMBDA TTT :
         With(PyInt(<<g[5]>>), LAMBDA DD :
             IF ~TTT.ok \/ ~PyInt(<<g[4]>>).ok \/ ~DD.ok
             THEN Raised("ValueError", "digit")
             ELSE Returned(<<IntOverTen(TTT.val), IntOverTen(DD.val)>>)))

decode_wind_keeps_999(g) ==
    IF Len(g) # 5 THEN Raised("ValueError", "length")
    ELSE With(PyInt(Slice(g, 0, 3)), LAMBDA ddd :
         With(PyInt(Slice(g, 3, 5)), LAMBDA ff :
             IF ~ddd.ok \/ ~ff.ok THEN Raised("ValueError", "digit")
             ELSE Returned(<<Some(ddd.val), ff.val>>)))

\* decode_pressure_height(group): (pressure_mb, height_m), one of them None
decode_pressure_height(g) ==
    IF Len(g) # 5 THEN Raised("ValueError", "length")
    ELSE LET first_digit == PyInt(<<g[1]>>)
             f == PyFloat(g)
             value == IF f.neg THEN 0 - f.units ELSE f.units
         IN IF ~first_digit.ok THEN Raised("ValueError", "digit")
            ELSE IF 0 <= first_digit.val /\ first_digit.val <= 5
                 THEN IF ~f.ok THEN Raised("ValueError", "digit")
                      ELSE Returned(<<Some(Float(f.neg, f.units)), None>>)
            ELSE IF 6 <= first_digit.val /\ first_digit.val <= 8
                 THEN IF ~f.ok THEN Raised("ValueError", "digit")
                      ELSE Returned(<<None, Some(Float(f.neg, f.units * 100))>>)
            ELSE IF first_digit.val = 9
                 THEN IF ~f.ok THEN Raised("ValueError", "digit")
                      ELSE Returned(<<Some(IntOverTen(90000 + value)), None>>)
            ELSE Raised("ValueError", "first digit")

\* decode_temp_dewpoint(group): (temperature_c, dew_point_depression_c)
decode_temp_dewpoint(g) ==
    IF Len(g) # 5 THEN Raised("ValueError", "length")
    ELSE LET TTT == PyInt(Slice(g, 0, 3))
             Ta == PyInt(<<g[4]>>)
             DD == PyInt(<<g[5]>>)
         IN IF ~TTT.ok \/ ~Ta.ok \/ ~DD.ok THEN Raised("ValueError", "digit")
            ELSE IF Ta.val = 0
                 THEN Returned(<<IntOverTen(TTT.val), IntOverTen(DD.val)>>)
            ELSE IF Ta.val = 1
                 THEN Returned(<<FloatNeg(IntOverTen(TTT.val)), IntOverTen(DD.val)>>)
            ELSE Raised("ValueError", "Ta")

\* decode_wind(group): (wind_direction_deg, wind_speed_kt), the direction may be None
decode_wind(g) ==
    IF Len(g) # 5 THEN Raised("ValueError", "length")
    ELSE LET ddd == PyInt(Slice(g, 0, 3))
             ff == PyInt(Slice(g, 3, 5))
         IN IF ~ddd.ok \/ ~ff.ok THEN Raised("ValueError", "digit")
            ELSE IF ddd.val = 0 THEN Returned(<<Some(0), ff.val>>)
            ELSE IF ddd.val = 999 THEN Returned(<<None, ff.val>>)
            ELSE Returned(<<Some(ddd.val), ff.val>>)

\* decode_temp_dewpoint of the catalogue's copy of the decoders: the
\* temperature of the first three digits, the depression the integer of the
\* last two, (None, None) for a group that is not five digits
catalog_decode_temp_dewpoint(g) ==
    IF Len(g) # 5 \/ \E k \in 1..Len(g) : g[k] \notin Digits
    THEN Returned(<<None, None>>)
    ELSE Returned(<<Some(Float(FALSE, DecimalValue(Slice(g, 0, 3)))),
                    Some(DecimalValue(Slice(g, 3, 5)))>>)

-----------------------------------------------------------------------------
(* Dictionaries and the report *)

EmptyDict == [k \in {} |-> None]

\* d[k] = v
DictSet(d, k, v) == (k :> v) @@ d

\* k in d
Has(d, k) == k \in DOMAIN d

\* d.get(k)
DictGet(d, k) == IF k \in DOMAIN d THEN Some(d[k]) ELSE None

\* parsed_data as parse_temp_drop builds it before the loop (uri and
\* message_date are the variables of those names)
InitialReport ==
    [header |-> EmptyDict,
     part_a_mandatory_levels |-> <<>>,
     part_a_tropopause |-> None,
     part_a_max_wind |-> None,
     part_a_sounding_system |-> None,
     part_b_significant_temp_humidity |-> <<>>,
     part_b_significant_wind |-> <<>>,
     remarks |-> EmptyDict]

\* the keys of the header a part marker line sets
PartKeys ==
    [a |-> [hour |-> "part_a_hour", id_indicator |-> "part_a_id_indicator",
            latitude |-> "part_a_latitude", quadrant |-> "part_a_quadrant",
            longitude |-> "part_a_longitude",
            marsden_square |-> "part_a_marsden_square",
            ula |-> "part_a_ula", ulo |-> "part_a_ulo"],
     b |-> [hour |-> "part_b_hour", id_indicator |-> "part_b_id_indicator",
            latitude |-> "part_b_latitude", quadrant |-> "part_b_quadrant",
            longitude |-> "part_b_longitude",
            marsden_square |-> "part_b_marsden_square",
            ula |-> "part_b_ula", ulo |-> "part_b_ulo"]]

\* what a block of the loop body leaves: the report, the exception that
\* left the block ("none", or the ValueError its except clause caught, or
\* the IndexError that no clause catches) and the warnings it printed
Outcome(data, e, w) ==
    [data |-> data, exc |-> e, warn |-> w, escapes |-> e \notin {"none", "ValueError"}]

\* what a block without a try leaves when a call in it raises e
Escapes(data, e) == [data |-> data, exc |-> e, warn |-> 0, escapes |-> TRUE]

-----------------------------------------------------------------------------
(* Part A and Part B marker lines *)

\* the quadrant correction of a decoded fix
\* A faulty variant of the correction of the longitude, which the property
\* of the quadrant tells from it: the codes of the southern latitudes.
QuadrantLongitudeSouth(lon, quadrant) ==
    IF quadrant \in {3, 5} THEN FloatNeg(lon) ELSE lon

QuadrantLatitude(lat, quadrant) ==
    IF quadrant \in {3, 5} THEN FloatNeg(lat) ELSE lat

QuadrantLongitude(lon, quadrant) ==
    IF quadrant \in {5, 7} THEN FloatNeg(lon) ELSE lon

\* the try block of a part marker line with at least 5 tokens: the header as
\* the block leaves it and the exception that ended it
ParsePartHeader(h, P, parts) ==
    LET K == PartKeys[P]
        p1 == parts[2]
        lat_str == parts[3]
        lon_str == parts[4]
        marsden_str == parts[5]
        hour == PyInt(Slice(p1, 2, 4))
        h1 == DictSet(h, K.hour, hour.val)
        id == PyInt(<<p1[5]>>)
        h2 == DictSet(h1, K.id_indicator, id.val)
        lat == PyFloat(SliceFrom(lat_str, 2))
        h3 == DictSet(h2, K.latitude, Float(lat.neg, lat.units))
        quadrant == PyInt(<<lon_str[1]>>)
        h4 == DictSet(h3, K.quadrant, quadrant.val)
        lon == PyFloat(SliceFrom(lon_str, 1))
        h5 == DictSet(h4, K.longitude, Float(lon.neg, lon.units))
        h6 == DictSet(DictSet(h5, K.latitude,
                              QuadrantLatitude(h5[K.latitude], quadrant.val)),
                      K.longitude,
                      QuadrantLongitude(h5[K.longitude], quadrant.val))
        marsden == PyInt(Slice(marsden_str, 0, 3))
        h7 == DictSet(h6, K.marsden_square, marsden.val)
        ula == PyInt(<<marsden_str[4]>>)
        h8 == DictSet(h7, K.ula, ula.val)
        ulo == PyInt(<<marsden_str[5]>>)
        h9 == DictSet(h8, K.ulo, ulo.val)
    IN IF ~hour.ok THEN [header |-> h, exc |-> "ValueError"]
       ELSE IF Len(p1) < 5 THEN [header |-> h1, exc |-> "IndexError"]
       ELSE IF ~id.ok THEN [header |-> h1, exc |-> "ValueError"]
       ELSE IF ~lat.ok THEN [header |-> h2, exc |-> "ValueError"]
       ELSE IF ~quadrant.ok THEN [header |-> h3, exc |-> "ValueError"]
       ELSE IF ~lon.ok THEN [header |-> h4, exc |-> "ValueError"]
       ELSE IF ~marsden.ok THEN [header |-> h6, exc |-> "ValueError"]
       ELSE IF Len(marsden_str) < 4 THEN [header |-> h7, exc |-> "IndexError"]
       ELSE IF ~ula.ok THEN [header |-> h7, exc |-> "ValueError"]
       ELSE IF Len(marsden_str) < 5 THEN [header |-> h8, exc |-> "IndexError"]
       ELSE IF ~ulo.ok THEN [header |-> h8, exc |-> "ValueError"]
       ELSE [header |-> h9, exc |-> "none"]

\* a line that starts with XXAA (P = "a") or XXBB (P = "b")
PartHeaderLine(data, P, l) ==
    With(Split(l), LAMBDA header_data_parts :
        IF Len(header_data_parts) >= 5
        THEN With(ParsePartHeader(data.header, P, header_data_parts), LAMBDA r :
                 Outcome([data EXCEPT !.header = r.header], r.exc,
                         IF r.exc = "ValueError" THEN 1 ELSE 0))
        ELSE Outcome(data, "none", 0))

-----------------------------------------------------------------------------
(* Section 7: the sounding system line (31313) *)

\* solar_ir_correction_map.get(code, "Unknown or not applicable")
SolarIrDescription(code) ==
    IF code = 0 THEN "No correction"
    ELSE IF code = 1 THEN "Correction applied"
    ELSE "Unknown or not applicable"

\* radiosonde_system_map.get(code, "Unknown or not specified")
RadiosondeDescription(code) ==
    IF code = 96 THEN "Descending radiosonde" ELSE "Unknown or not specified"

\* tracking_technique_map.get(code, "Unknown or not specified")
TrackingDescription(code) ==
    IF code = 0 THEN "No tracking"
    ELSE IF code = 1 THEN "Radar"
    ELSE IF code = 2 THEN "Radio direction finding"
    ELSE IF code = 3 THEN "NAVAID (Omega, Loran-C)"
    ELSE IF code = 4 THEN "GPS"
    ELSE IF code = 5 THEN "Other satellite navigation"
    ELSE IF code = 6 THEN "Inertial"
    ELSE IF code = 7 THEN "Differential GPS"
    ELSE IF code = 8 THEN "Automatic satellite navigation"
    ELSE "Unknown or not specified"

SoundingSystemLine(data, l) ==
    With(Split(l), LAMBDA parts :
    LET srrarasasa == parts[2]
        launch_time_group == parts[3]
        solar == PyInt(<<srrarasasa[1]>>)
        system == PyInt(Slice(srrarasasa, 1, 3))
        tracking == PyInt(Slice(srrarasasa, 3, 5))
        indicator == PyInt(<<launch_time_group[1]>>)
        hour == PyInt(Slice(launch_time_group, 1, 3))
        minute == PyInt(Slice(launch_time_group, 3, 5))
        sounding_system_info ==
            [indicator_raw |-> srrarasasa,
             solar_ir_correction |-> solar.val,
             radiosonde_system_used |-> system.val,
             tracking_technique_status |-> tracking.val,
             launch_time_indicator |-> indicator.val,
             launch_hour_utc |-> hour.val,
             launch_minute_utc |-> minute.val,
             solar_ir_correction_description |-> SolarIrDescription(solar.val),
             radiosonde_system_description |-> RadiosondeDescription(system.val),
             tracking_technique_description |-> TrackingDescription(tracking.val)]
    IN IF Len(parts) >= 3
       THEN IF solar.ok /\ system.ok /\ tracking.ok
               /\ indicator.ok /\ hour.ok /\ minute.ok
            THEN Outcome([data EXCEPT !.part_a_sounding_system =
                                          Some(sounding_system_info)],
                         "none", 0)
            ELSE Outcome(data, "ValueError", 1)
       ELSE Outcome(data, "none", 0))

-----------------------------------------------------------------------------
(* Part A data lines: mandatory levels, tropopause, maximum wind *)

\* \d{5}
IsGroup5(t) == Len(t) = 5 /\ \A k \in 1..5 : t[k] \in Digits

\* ^(\d{5}\s+){2}\d{5}(\s+\d{5}\s+\d{5}\s+\d{5})*$ on a stripped line
MatchesMandatory(l) ==
    With(Split(l), LAMBDA groups :
        /\ Len(groups) >= 3
        /\ Len(groups) % 3 = 0
        /\ \A k \in 1..Len(groups) : IsGroup5(groups[k]))

\* one chunk of three groups: the level, or the ValueError of a decoder
MandatoryLevel(g1, g2, g3) ==
    LET ph == decode_pressure_height(g1)
        td == decode_temp_dewpoint(g2)
        w == decode_wind(g3)
    IN IF ph.exc # "none" THEN Raised(ph.exc, ph.msg)
       ELSE IF td.exc # "none" THEN Raised(td.exc, td.msg)
       ELSE IF w.exc # "none" THEN Raised(w.exc, w.msg)
       ELSE Returned([pressure_mb |-> ph.val[1],
                      height_m |-> ph.val[2],
                      temperature_c |-> td.val[1],
                      dew_point_depression_c |-> td.val[2],
                      wind_direction_deg |-> w.val[1],
                      wind_speed_kt |-> w.val[2]])

\* A faulty variant of the loop below, which the property of the loop tells
\* from it: the first chunk in error ends the line.
RECURSIVE MandatoryLoopEndsAtError(_, _, _, _)
MandatoryLoopEndsAtError(groups, j, levels, warn) ==
    IF j + 2 >= Len(groups) THEN [levels |-> levels, warn |-> warn]
    ELSE With(MandatoryLevel(groups[j + 1], groups[j + 2], groups[j + 3]),
              LAMBDA r :
                  IF r.exc = "none"
                  THEN MandatoryLoopEndsAtError(groups, j + 3,
                                                Append(levels, r.val), warn)
                  ELSE [levels |-> levels, warn |-> warn + 1])

\* for j in range(0, len(groups), 3): the levels appended and the warnings
RECURSIVE MandatoryLoop(_, _, _, _)
MandatoryLoop(groups, j, levels, warn) ==
    IF j >= Len(groups) THEN [levels |-> levels, warn |-> warn]
    ELSE IF j + 2 < Len(groups)
         THEN With(MandatoryLevel(groups[j + 1], groups[j + 2], groups[j + 3]),
                   LAMBDA r :
                       IF r.exc = "none"
                       THEN MandatoryLoop(groups, j + 3, Append(levels, r.val), warn)
                       ELSE MandatoryLoop(groups, j + 3, levels, warn + 1))
         ELSE MandatoryLoop(groups, j + 3, levels, warn)

MandatoryLine(data, l) ==
    With(Split(l), LAMBDA groups :
        With(MandatoryLoop(groups, 0, data.part_a_mandatory_levels, 0), LAMBDA r :
            Outcome([data EXCEPT !.part_a_mandatory_levels = r.levels],
                    "none", r.warn)))

\* a line that starts with 88
TropopauseLine(data, l) ==
    With(Split(l), LAMBDA parts :
    LET pressure == PyInt(SliceFrom(parts[1], 2))
        td == decode_temp_dewpoint(parts[2])
        w == decode_wind(parts[3])
    IN IF parts[1] = <<"8", "8", "9", "9", "9">>
       THEN Outcome([data EXCEPT !.part_a_tropopause = Some([not_observed |-> TRUE])],
                    "none", 0)
       ELSE IF Len(parts) >= 3
            THEN IF pressure.ok /\ td.exc = "none" /\ w.exc = "none"
                 THEN Outcome([data EXCEPT !.part_a_tropopause =
                                  Some([pressure_mb |-> pressure.val,
                                        temperature_c |-> td.val[1],
                                        dew_point_depression_c |-> td.val[2],
                                        wind_direction_deg |-> w.val[1],
                                        wind_speed_kt |-> w.val[2]])],
                              "none", 0)
                 ELSE Outcome(data, "ValueError", 1)
            ELSE Outcome(data, "none", 0))

\* a line that starts with 77 or 66
MaxWindLine(data, l) ==
    With(Split(l), LAMBDA parts :
    LET pressure == PyInt(SliceFrom(parts[1], 2))
        w == decode_wind(parts[2])
        shear == Len(parts) > 2 /\ StartsWith(parts[3], <<"4">>)
        vbvb == PyInt(Slice(parts[3], 1, 3))
        vava == PyInt(Slice(parts[3], 3, 5))
        max_wind_data ==
            [indicator |-> Slice(parts[1], 0, 2),
             pressure_mb |-> pressure.val,
             wind_direction_deg |-> w.val[1],
             wind_speed_kt |-> w.val[2]]
        with_shear ==
            [indicator |-> Slice(parts[1], 0, 2),
             pressure_mb |-> pressure.val,
             wind_direction_deg |-> w.val[1],
             wind_speed_kt |-> w.val[2],
             vertical_wind_shear |-> [below_max_wind_kt |-> vbvb.val,
                                      above_max_wind_kt |-> vava.val]]
    IN IF parts[1] = <<"7", "7", "9", "9", "9">>
       THEN Outcome([data EXCEPT !.part_a_max_wind = Some([not_observed |-> TRUE])],
                    "none", 0)
       ELSE IF Len(parts) >= 2
            THEN IF ~pressure.ok \/ w.exc # "none"
                 THEN Outcome(data, "ValueError", 1)
                 ELSE IF ~shear
                      THEN Outcome([data EXCEPT !.part_a_max_wind = Some(max_wind_data)],
                                   "none", 0)
                 ELSE IF vbvb.ok /\ vava.ok
                      THEN Outcome([data EXCEPT !.part_a_max_wind = Some(with_shear)],
                                   "none", 0)
                 ELSE Outcome(data, "ValueError", 1)
            ELSE Outcome(data, "none", 0))

-----------------------------------------------------------------------------
(* Part B data lines: significant temperature and wind levels *)

\* ^(\d{5}\s+){1}\d{5}(\s+\d{5}\s+\d{5})*$ on a stripped line
MatchesSignificant(l) ==
    With(Split(l), LAMBDA groups :
        /\ Len(groups) >= 2
        /\ Len(groups) % 2 = 0
        /\ \A k \in 1..Len(groups) : IsGroup5(groups[k]))

\* one chunk of two groups of a significant temperature line
SignificantTempLevel(g1, g2) ==
    LET level_num == PyInt(Slice(g1, 0, 2))
        pressure == PyInt(Slice(g1, 2, 5))
        td == decode_temp_dewpoint(g2)
    IN IF ~level_num.ok \/ ~pressure.ok THEN Raised("ValueError", "digit")
       ELSE IF td.exc # "none" THEN Raised(td.exc, td.msg)
       ELSE Returned([level_number |-> level_num.val,
                      pressure_mb |-> pressure.val,
                      temperature_c |-> td.val[1],
                      dew_point_depression_c |-> td.val[2]])

\* one chunk of two groups of a significant wind line
SignificantWindLevel(g1, g2) ==
    LET level_num == PyInt(Slice(g1, 0, 2))
        pressure == PyInt(Slice(g1, 2, 5))
        w == decode_wind(g2)
    IN IF ~level_num.ok \/ ~pressure.ok THEN Raised("ValueError", "digit")
       ELSE IF w.exc # "none" THEN Raised(w.exc, w.msg)
       ELSE Returned([level_number |-> level_num.val,
                      pressure_mb |-> pressure.val,
                      wind_direction_deg |-> w.val[1],
                      wind_speed_kt |-> w.val[2]])

\* A faulty variant of the loop below, which the property of the
\* significant levels tells from it: the first chunk in error ends the line.
RECURSIVE SignificantLoopEndsAtError(_, _, _, _, _)
SignificantLoopEndsAtError(groups, j, levels, warn, wind) ==
    IF j + 1 >= Len(groups) THEN [levels |-> levels, warn |-> warn]
    ELSE With(IF wind
              THEN SignificantWindLevel(groups[j + 1], groups[j + 2])
              ELSE SignificantTempLevel(groups[j + 1], groups[j + 2]),
              LAMBDA r :
                  IF r.exc = "none"
                  THEN SignificantLoopEndsAtError(groups, j + 2,
                                                  Append(levels, r.val),
                                                  warn, wind)
                  ELSE [levels |-> levels, warn |-> warn + 1])

\* for j in range(0, len(groups), 2), wind TRUE for the 21212 line
RECURSIVE SignificantLoop(_, _, _, _, _)
SignificantLoop(groups, j, levels, warn, wind) ==
    IF j >= Len(groups) THEN [levels |-> levels, warn |-> warn]
    ELSE IF j + 1 < Len(groups)
         THEN With(IF wind
                   THEN SignificantWindLevel(groups[j + 1], groups[j + 2])
                   ELSE SignificantTempLevel(groups[j + 1], groups[j + 2]),
                   LAMBDA r :
                       IF r.exc = "none"
                       THEN SignificantLoop(groups, j + 2, Append(levels, r.val),
                                            warn, wind)
                       ELSE SignificantLoop(groups, j + 2, levels, warn + 1, wind))
         ELSE SignificantLoop(groups, j + 2, levels, warn, wind)

SignificantTempLine(data, l) ==
    With(Split(l), LAMBDA groups :
        With(SignificantLoop(groups, 0, data.part_b_significant_temp_humidity,
                             0, FALSE),
             LAMBDA r :
                 Outcome([data EXCEPT !.part_b_significant_temp_humidity = r.levels],
                         "none", r.warn)))

\* a line that starts with 21212
SignificantWindLine(data, l) ==
    With(Strip(SliceFrom(l, 6)), LAMBDA data_string :
        With(Split(data_string), LAMBDA groups :
            With(SignificantLoop(groups, 0, data.part_b_significant_wind, 0, TRUE),
                 LAMBDA r :
                     Outcome([data EXCEPT !.part_b_significant_wind = r.levels],
                             "none", r.warn))))

-----------------------------------------------------------------------------
(* Section 10: the mission info line (61616) *)

Upper == {"A", "B", "C", "D", "E", "F", "G", "H", "I", "J", "K", "L", "M",
          "N", "O", "P", "Q", "R", "S", "T", "U", "V", "W", "X", "Y", "Z"}

\* " ".join(tokens)
RECURSIVE Join(_)
Join(tokens) ==
    IF tokens = <<>> THEN <<>>
    ELSE IF Len(tokens) = 1 THEN tokens[1]
    ELSE tokens[1] \o <<" ">> \o Join(Tail(tokens))

\* re.match(r'IOP\d+', part)
MatchesIOP(part) ==
    StartsWith(part, <<"I", "O", "P">>) /\ Len(part) >= 4 /\ part[4] \in Digits

\* re.match(r'[A-Z]+', part) and len(part) > 1
MatchesStormName(part) == Len(part) > 1 /\ part[1] \in Upper

\* re.match(r'\d{2}', part)
MatchesTwoDigits(part) ==
    Len(part) >= 2 /\ part[1] \in Digits /\ part[2] \in Digits

\* for part in remaining_parts: parsed is parsed_mission_info (additional_info
\* a list of tokens), found the flag found_iop_or_storm_name, ob the flag
\* found_ob_indicator
RECURSIVE MissionInfoLoop(_, _, _, _)
MissionInfoLoop(remaining, parsed, found, ob) ==
    IF remaining = <<>> THEN parsed
    ELSE LET part == Head(remaining)
             rest == Tail(remaining)
         IN IF MatchesIOP(part) /\ ~found
            THEN MissionInfoLoop(rest,
                     DictSet(parsed, "intensive_observation_period", part), TRUE, ob)
            ELSE IF MatchesStormName(part) /\ ~found
            THEN MissionInfoLoop(rest, DictSet(parsed, "storm_name", part), TRUE, ob)
            ELSE IF part = <<"O", "B">> /\ ~ob
            THEN MissionInfoLoop(rest,
                     DictSet(parsed, "observation_indicator", part), found, TRUE)
            ELSE IF /\ MatchesTwoDigits(part)
                    /\ Has(parsed, "observation_indicator")
                    /\ parsed["observation_indicator"] = <<"O", "B">>
                    /\ ~Has(parsed, "storm_number")
            THEN MissionInfoLoop(rest, DictSet(parsed, "storm_number", part), found, ob)
            ELSE MissionInfoLoop(rest,
                     DictSet(parsed, "additional_info",
                             IF Has(parsed, "additional_info")
                             THEN Append(parsed["additional_info"], part)
                             ELSE <<part>>),
                     found, ob)

\* a line that starts with 61616
MissionInfoLine(data, l) ==
    LET raw_mission_info == Strip(SliceFrom(l, 6))
        parts == Split(raw_mission_info)
        p0 == IF Len(parts) > 0
              THEN DictSet(EmptyDict, "aircraft_identifier", parts[1])
              ELSE EmptyDict
        p1 == IF Len(parts) > 1
              THEN DictSet(p0, "flight_mission_id", parts[2])
              ELSE p0
        looped == MissionInfoLoop(SliceFrom(parts, 2), p1, FALSE, FALSE)
        parsed_mission_info ==
            IF Has(looped, "additional_info")
            THEN DictSet(looped, "additional_info",
                         Strip(Join(looped["additional_info"])))
            ELSE looped
        remarks == DictSet(DictSet(data.remarks, "mission_info", raw_mission_info),
                           "mission_info_parsed", parsed_mission_info)
    IN Outcome([data EXCEPT !.remarks = remarks], "none", 0)

-----------------------------------------------------------------------------
(* Section 10: the remarks line (62626) *)

\* the alternatives of r'(MBL WND|AEV|DLM WND|WL|REL|SPG|EYEWALL)', in order
RemarkKeys ==
    << <<"M", "B", "L", " ", "W", "N", "D">>,
       <<"A", "E", "V">>,
       <<"D", "L", "M", " ", "W", "N", "D">>,
       <<"W", "L">>,
       <<"R", "E", "L">>,
       <<"S", "P", "G">>,
       <<"E", "Y", "E", "W", "A", "L", "L">> >>

\* segment.replace(" ", "_").lower() of each key
RemarkKeyNames == <<"mbl_wnd", "aev", "dlm_wnd", "wl", "rel", "spg", "eyewall">>

\* whether s holds t at (1-based) position p
HoldsAt(s, p, t) == p + Len(t) - 1 <= Len(s) /\ SubSeq(s, p, p + Len(t) - 1) = t

\* the first alternative that matches at position p, 0 for none
KeyAt(s, p) ==
    IF \E k \in 1..Len(RemarkKeys) : HoldsAt(s, p, RemarkKeys[k])
    THEN CHOOSE k \in 1..Len(RemarkKeys) :
             /\ HoldsAt(s, p, RemarkKeys[k])
             /\ \A m \in 1..(k - 1) : ~HoldsAt(s, p, RemarkKeys[m])
    ELSE 0

\* re.split of the remark string on the keys, the keys kept: text, key,
\* text, ...; p is the position after the last key found
RECURSIVE ReSplit(_, _, _)
ReSplit(s, p, acc) ==
    With({q \in p..Len(s) : KeyAt(s, q) # 0}, LAMBDA found :
        IF found = {} THEN Append(acc, SubSeq(s, p, Len(s)))
        ELSE With(Nth(found, 1), LAMBDA q :
                 With(RemarkKeys[KeyAt(s, q)], LAMBDA key :
                     ReSplit(s, q + Len(key), acc \o <<SubSeq(s, p, q - 1), key>>))))

\* the index of a segment that is one of the keys, 0 otherwise
KeyIndex(segment) ==
    IF \E k \in 1..Len(RemarkKeys) : RemarkKeys[k] = segment
    THEN CHOOSE k \in 1..Len(RemarkKeys) : RemarkKeys[k] = segment
    ELSE 0

\* for segment in remark_segments, from the k-th: current_key is "" for None
RECURSIVE SegmentLoop(_, _, _, _)
SegmentLoop(segments, k, current_key, remarks) ==
    IF k > Len(segments) THEN remarks
    ELSE With(Strip(segments[k]), LAMBDA segment :
             IF segment = <<>>
             THEN SegmentLoop(segments, k + 1, current_key, remarks)
             ELSE IF KeyIndex(segment) # 0
             THEN SegmentLoop(segments, k + 1, RemarkKeyNames[KeyIndex(segment)],
                              remarks)
             ELSE IF current_key # ""
             THEN With(DictSet(remarks, current_key,
                               IF Has(remarks, current_key)
                               THEN remarks[current_key] \o <<" ">> \o segment
                               ELSE segment),
                       LAMBDA assigned : SegmentLoop(segments, k + 1, "", assigned))
             ELSE SegmentLoop(segments, k + 1, "", remarks))

\* the remarks after the segmentation of one 62626 line
SegmentRemarks(remarks, l) ==
    With(Strip(SliceFrom(l, 6)), LAMBDA remark_string :
        With(ReSplit(remark_string, 1, <<>>), LAMBDA remark_segments :
            SegmentLoop(remark_segments, 1, "initial_description", remarks)))

\* The patterns of the secondary decodes are sequences of atoms: a literal
\* text, or a character class repeated lo to hi times, or lo times and more.
Lit(t) == [kind |-> "lit", text |-> t]
Cls(C, lo, hi) == [kind |-> "cls", chars |-> C, lo |-> lo, bounded |-> TRUE, hi |-> hi]
Many(C, lo) == [kind |-> "cls", chars |-> C, lo |-> lo, bounded |-> FALSE, hi |-> lo]

NoMatch == [ok |-> FALSE, start |-> 0, ends |-> <<>>]

\* the longest run of characters of C at position p, of at most cap
Run(s, p, C, cap) ==
    CHOOSE n \in 0..Min(cap, Len(s) - p + 1) :
        /\ \A m \in p..(p + n - 1) : s[m] \in C
        /\ (n = Min(cap, Len(s) - p + 1) \/ s[p + n] \notin C)

\* the atoms k.. of pat matched at position p, the longest repetitions
\* first: ends[j] is the position after atom k + j - 1
RECURSIVE MatchAt(_, _, _, _)
MatchAt(s, p, pat, k) ==
    IF k > Len(pat) THEN [ok |-> TRUE, start |-> p, ends |-> <<>>]
    ELSE IF pat[k].kind = "lit"
    THEN IF HoldsAt(s, p, pat[k].text)
         THEN With(MatchAt(s, p + Len(pat[k].text), pat, k + 1), LAMBDA r :
                  IF r.ok
                  THEN [ok |-> TRUE, start |-> p,
                        ends |-> <<p + Len(pat[k].text)>> \o r.ends]
                  ELSE NoMatch)
         ELSE NoMatch
    ELSE With(Run(s, p, pat[k].chars,
                  IF pat[k].bounded THEN pat[k].hi ELSE Len(s)), LAMBDA run :
         With({<<n, MatchAt(s, p + n, pat, k + 1)>> : n \in pat[k].lo..run},
              LAMBDA tries :
                  IF \E t \in tries : t[2].ok
                  THEN With(CHOOSE t \in tries :
                                /\ t[2].ok
                                /\ \A u \in tries : u[2].ok => u[1] <= t[1],
                            LAMBDA t : [ok |-> TRUE, start |-> p,
                                        ends |-> <<p + t[1]>> \o t[2].ends])
                  ELSE NoMatch))

\* re.search(pat, s): the match at the leftmost position that has one
Search(s, pat) ==
    With({MatchAt(s, p, pat, 1) : p \in 1..(Len(s) + 1)}, LAMBDA tries :
        IF \E t \in tries : t.ok
        THEN CHOOSE t \in tries : t.ok /\ \A u \in tries : u.ok => t.start <= u.start
        ELSE NoMatch)

\* the text that the atoms a..b of the pattern matched
Group(s, m, a, b) ==
    SubSeq(s, IF a = 1 THEN m.start ELSE m.ends[a - 1], m.ends[b] - 1)

\* s.replace(t, ''), t not empty
RECURSIVE Remove(_, _)
Remove(s, t) ==
    IF \E p \in 1..Len(s) : HoldsAt(s, p, t)
    THEN With(CHOOSE p \in 1..Len(s) :
                  HoldsAt(s, p, t) /\ \A q \in 1..(p - 1) : ~HoldsAt(s, q, t),
              LAMBDA p :
                  With(SubSeq(s, p + Len(t), Len(s)), LAMBDA rest :
                      SubSeq(s, 1, p - 1) \o Remove(rest, t)))
    ELSE s

\* float(t) of a text of digits and points, [\d.]+: a ValueError unless it
\* has a digit and at most one point.  The value is mantissa / 10^decimals,
\* with no trailing zero after the point.
RECURSIVE Shorten(_, _)
Shorten(mantissa, decimals) ==
    IF decimals > 0 /\ mantissa % 10 = 0
    THEN Shorten(mantissa \div 10, decimals - 1)
    ELSE [mantissa |-> mantissa, decimals |-> decimals]

PyFloatPoint(t) ==
    With({k \in 1..Len(t) : t[k] = "."}, LAMBDA points :
        IF Cardinality(points) > 1 \/ Len(t) - Cardinality(points) = 0
        THEN [ok |-> FALSE, mantissa |-> 0, decimals |-> 0]
        ELSE With(SelectSeq(t, LAMBDA c : c # "."), LAMBDA digits :
                 With(Shorten(DecimalValue(digits),
                              IF points = {} THEN 0
                              ELSE Len(t) - (CHOOSE k \in points : TRUE)),
                      LAMBDA v : [ok |-> TRUE, mantissa |-> v.mantissa,
                                  decimals |-> v.decimals])))

\* the float of a position, val *= -1 for the hemisphere S or W
Signed(f, hem) ==
    [neg |-> hem \in {<<"S">>, <<"W">>}, mantissa |-> f.mantissa,
     decimals |-> f.decimals]

D == Digits
DP == Digits \cup {"."}
WS == {" "}

\* r'(\d{2}/\d{4}Z)'
TimePattern == <<Cls(D, 2, 2), Lit(<<"/">>), Cls(D, 4, 4), Lit(<<"Z">>)>>

\* r'([\d.]+)([NS])\s+([\d.]+)([EW])'
LocationPattern ==
    <<Many(DP, 1), Cls({"N", "S"}, 1, 1), Many(WS, 1),
      Many(DP, 1), Cls({"E", "W"}, 1, 1)>>

\* r'(\d{4}Z)\s+(\d{3})/(\d{2,3})\s+KNOTS AT (\d+)\s+FEET'
MblWndPattern ==
    <<Cls(D, 4, 4), Lit(<<"Z">>), Many(WS, 1), Cls(D, 3, 3), Lit(<<"/">>),
      Cls(D, 2, 3), Many(WS, 1),
      Lit(<<"K", "N", "O", "T", "S", " ", "A", "T", " ">>),
      Many(D, 1), Many(WS, 1), Lit(<<"F", "E", "E", "T">>)>>

\* r'(\d{4}Z)\s+([\d.]+)([NS])\s+([\d.]+)([EW])\s+PSN'
AevPattern ==
    <<Cls(D, 4, 4), Lit(<<"Z">>), Many(WS, 1),
      Many(DP, 1), Cls({"N", "S"}, 1, 1), Many(WS, 1),
      Many(DP, 1), Cls({"E", "W"}, 1, 1), Many(WS, 1), Lit(<<"P", "S", "N">>)>>

\* r'(\d{3})/(\d+)\s+at\s+(\d+)\s+FT'
DlmWndPattern ==
    <<Cls(D, 3, 3), Lit(<<"/">>), Many(D, 1), Many(WS, 1), Lit(<<"a", "t">>),
      Many(WS, 1), Many(D, 1), Many(WS, 1), Lit(<<"F", "T">>)>>

\* r'(\d+)\s+FT\s+(\d{3})/(\d+)'
WlPattern ==
    <<Many(D, 1), Many(WS, 1), Lit(<<"F", "T">>), Many(WS, 1),
      Cls(D, 3, 3), Lit(<<"/">>), Many(D, 1)>>

\* r'(\d{4}Z),\s+(\d+)\s+ft'
EyewallPattern ==
    <<Cls(D, 4, 4), Lit(<<"Z">>), Lit(<<",">>), Many(WS, 1), Many(D, 1),
      Many(WS, 1), Lit(<<"f", "t">>)>>

\* d without the key k: del d[k]
DictDel(d, k) == [x \in (DOMAIN d) \ {k} |-> d[x]]

\* the time of a release or splash point: time_string and, in a try block,
\* the day, hour and minute of it
PointTime(time_string) ==
    LET day == PyInt(Slice(time_string, 0, 2))
        hour == PyInt(Slice(time_string, 3, 5))
        minute == PyInt(Slice(time_string, 5, 7))
        raw == DictSet(EmptyDict, "time_string", time_string)
    IN IF day.ok /\ hour.ok /\ minute.ok
       THEN DictSet(DictSet(DictSet(raw, "time_day", day.val),
                            "time_hour_utc", hour.val),
                    "time_minute_utc", minute.val)
       ELSE raw

\* the decode of a release point (REL) or splash point (SPG) remark: the
\* dictionary rel_parsed or spg_parsed, or the ValueError of float()
PointDecode(content) ==
    With(Search(content, TimePattern), LAMBDA time_match :
    With(IF time_match.ok THEN PointTime(Group(content, time_match, 1, 4))
         ELSE EmptyDict, LAMBDA timed :
    With(IF time_match.ok
         THEN Strip(Remove(content, Group(content, time_match, 1, 4)))
         ELSE content, LAMBDA untimed :
    With(Search(untimed, LocationPattern), LAMBDA location_match :
        IF ~location_match.ok
        THEN Returned(IF untimed # <<>>
                      THEN DictSet(timed, "description", untimed) ELSE timed)
        ELSE With(PyFloatPoint(Group(untimed, location_match, 1, 1)), LAMBDA lat_val :
             With(PyFloatPoint(Group(untimed, location_match, 4, 4)), LAMBDA lon_val :
             With(Strip(Remove(untimed, Group(untimed, location_match, 1, 5))),
                  LAMBDA rest :
                 IF ~lat_val.ok \/ ~lon_val.ok THEN Raised("ValueError", "float")
                 ELSE With(DictSet(DictSet(timed, "latitude",
                               Signed(lat_val, Group(untimed, location_match, 2, 2))),
                               "longitude",
                               Signed(lon_val, Group(untimed, location_match, 5, 5))),
                           LAMBDA located :
                               Returned(IF rest # <<>>
                                        THEN DictSet(located, "description", rest)
                                        ELSE located)))))))))

\* the REL or SPG block: the remarks it leaves and the exception it raised
PointStep(remarks, key, parsed_key) ==
    IF Has(remarks, key) /\ remarks[key] # <<>>
    THEN With(PointDecode(remarks[key]), LAMBDA r :
             IF r.exc # "none" THEN [remarks |-> remarks, exc |-> r.exc]
             ELSE [remarks |-> DictDel(DictSet(remarks, parsed_key, r.val), key),
                   exc |-> "none"])
    ELSE [remarks |-> remarks, exc |-> "none"]

\* the MBL WND block
MblWndStep(remarks) ==
    IF Has(remarks, "mbl_wnd") /\ remarks["mbl_wnd"] # <<>>
    THEN With(remarks["mbl_wnd"], LAMBDA mbl_wnd_str :
         With(Search(mbl_wnd_str, MblWndPattern), LAMBDA match :
             DictDel(IF match.ok
                     THEN DictSet(remarks, "mbl_wnd_parsed",
                              [time_utc_string |-> Group(mbl_wnd_str, match, 1, 2),
                               wind_direction_deg |->
                                   PyInt(Group(mbl_wnd_str, match, 4, 4)).val,
                               wind_speed_kt |->
                                   PyInt(Group(mbl_wnd_str, match, 6, 6)).val,
                               altitude_feet |->
                                   PyInt(Group(mbl_wnd_str, match, 9, 9)).val])
                     ELSE remarks,
                     "mbl_wnd")))
    ELSE remarks

\* the AEV block: the remarks it leaves and the exception it raised
AevStep(remarks) ==
    IF Has(remarks, "aev") /\ remarks["aev"] # <<>>
    THEN With(remarks["aev"], LAMBDA aev_str :
         With(Search(aev_str, AevPattern), LAMBDA match :
             IF ~match.ok
             THEN [remarks |-> DictDel(remarks, "aev"), exc |-> "none"]
             ELSE With(PyFloatPoint(Group(aev_str, match, 4, 4)), LAMBDA lat_val :
                  With(PyFloatPoint(Group(aev_str, match, 7, 7)), LAMBDA lon_val :
                      IF ~lat_val.ok \/ ~lon_val.ok
                      THEN [remarks |-> remarks, exc |-> "ValueError"]
                      ELSE [remarks |->
                                DictDel(DictSet(remarks, "aev_parsed",
                                    [time_utc_string |-> Group(aev_str, match, 1, 2),
                                     latitude |->
                                         Signed(lat_val, Group(aev_str, match, 5, 5)),
                                     longitude |->
                                         Signed(lon_val, Group(aev_str, match, 8, 8))]),
                                    "aev"),
                            exc |-> "none"]))))
    ELSE [remarks |-> remarks, exc |-> "none"]

\* the DLM WND block
DlmWndStep(remarks) ==
    IF Has(remarks, "dlm_wnd") /\ remarks["dlm_wnd"] # <<>>
    THEN With(remarks["dlm_wnd"], LAMBDA dlm_wnd_str :
         With(Search(dlm_wnd_str, DlmWndPattern), LAMBDA match :
             DictDel(IF match.ok
                     THEN DictSet(remarks, "dlm_wnd_parsed",
                              [wind_direction_deg |->
                                   PyInt(Group(dlm_wnd_str, match, 1, 1)).val,
                               wind_speed_kt |->
                                   PyInt(Group(dlm_wnd_str, match, 3, 3)).val,
                               altitude_feet |->
                                   PyInt(Group(dlm_wnd_str, match, 7, 7)).val])
                     ELSE remarks,
                     "dlm_wnd")))
    ELSE remarks

\* the WL block
WlStep(remarks) ==
    IF Has(remarks, "wl") /\ remarks["wl"] # <<>>
    THEN With(remarks["wl"], LAMBDA wl_str :
         With(Search(wl_str, WlPattern), LAMBDA match :
             DictDel(IF match.ok
                     THEN DictSet(remarks, "wl_parsed",
                              [altitude_feet |->
                                   PyInt(Group(wl_str, match, 1, 1)).val,
                               wind_direction_deg |->
                                   PyInt(Group(wl_str, match, 5, 5)).val,
                               wind_speed_kt |->
                                   PyInt(Group(wl_str, match, 7, 7)).val])
                     ELSE remarks,
                     "wl")))
    ELSE remarks

\* the EYEWALL block
EyewallStep(remarks) ==
    IF Has(remarks, "eyewall") /\ remarks["eyewall"] # <<>>
    THEN With(remarks["eyewall"], LAMBDA eyewall_str :
         With(Search(eyewall_str, EyewallPattern), LAMBDA match :
             DictDel(IF match.ok
                     THEN DictSet(remarks, "eyewall_parsed",
                              [time_utc_string |-> Group(eyewall_str, match, 1, 2),
                               altitude_feet |->
                                   PyInt(Group(eyewall_str, match, 5, 5)).val])
                     ELSE remarks,
                     "eyewall")))
    ELSE remarks

\* a line that starts with 62626: the block has no try, the ValueError of
\* a float() leaves parse_temp_drop
RemarksLine(data, l) ==
    With(SegmentRemarks(data.remarks, l), LAMBDA segmented :
    With(PointStep(segmented, "rel", "rel_parsed"), LAMBDA rel :
        IF rel.exc # "none"
        THEN Escapes([data EXCEPT !.remarks = rel.remarks], rel.exc)
        ELSE
    With(PointStep(rel.remarks, "spg", "spg_parsed"), LAMBDA spg :
        IF spg.exc # "none"
        THEN Escapes([data EXCEPT !.remarks = spg.remarks], spg.exc)
        ELSE
    With(MblWndStep(spg.remarks), LAMBDA mbl :
    With(AevStep(mbl), LAMBDA aev :
        IF aev.exc # "none"
        THEN Escapes([data EXCEPT !.remarks = aev.remarks], aev.exc)
        ELSE
    With(DlmWndStep(aev.remarks), LAMBDA dlm :
    With(WlStep(dlm), LAMBDA wl :
        Outcome([data EXCEPT !.remarks = EyewallStep(wl)], "none", 0))))))))

-----------------------------------------------------------------------------
(* The body of the loop over the lines *)

XXAA == <<"X", "X", "A", "A">>
XXBB == <<"X", "X", "B", "B">>

\* the first two lines: the serial line and the WMO header line
SerialLine(data, l) ==
    Outcome([data EXCEPT !.header = DictSet(EmptyDict, "sonde_serial", l)], "none", 0)

\* A faulty variant of the line below, which the property of the header
\* lines tells from it: the first two tokens change places.
WmoHeaderLineSwapped(data, l) ==
    With(Split(l), LAMBDA parts :
       IF Len(parts) >= 3
       THEN Outcome([data EXCEPT !.header =
                        DictSet(DictSet(DictSet(data.header,
                            "wmo_header", parts[2]),
                            "icao_originator", parts[1]),
                            "transmission_date_time_group", parts[3])],
                    "none", 0)
       ELSE Outcome(data, "none", 0))

WmoHeaderLine(data, l) ==
    With(Split(l), LAMBDA parts :
       IF Len(parts) >= 3
       THEN Outcome([data EXCEPT !.header =
                        DictSet(DictSet(DictSet(data.header,
                            "wmo_header", parts[1]),
                            "icao_originator", parts[2]),
                            "transmission_date_time_group", parts[3])],
                    "none", 0)
       ELSE Outcome(data, "none", 0))

\* A faulty variant of NextPartB, which the property of the active part
\* tells from it: XXAA leaves Part B active.
NextPartBKept(n, l, b) ==
    IF n < 2 THEN b
    ELSE IF StartsWith(l, XXBB) THEN TRUE
    ELSE b

\* A faulty variant of NextPartA, which the property of the header lines
\* tells from it: XXAA sets Part A active at any index.
NextPartAAtAnyIndex(n, l, a) ==
    IF StartsWith(l, XXAA) THEN TRUE
    ELSE IF StartsWith(l, XXBB) THEN FALSE
    ELSE a

\* the active part after line l at index n
NextPartA(n, l, a) ==
    IF n < 2 THEN a
    ELSE IF StartsWith(l, XXAA) THEN TRUE
    ELSE IF StartsWith(l, XXBB) THEN FALSE
    ELSE a

NextPartB(n, l, b) ==
    IF n < 2 THEN b
    ELSE IF StartsWith(l, XXAA) THEN FALSE
    ELSE IF StartsWith(l, XXBB) THEN TRUE
    ELSE b

\* the lines the block of Part A ends with continue; any other line goes
\* on to the block of Part B
PartAHandles(l) ==
    \/ MatchesMandatory(l)
    \/ StartsWith(l, <<"8", "8">>)
    \/ StartsWith(l, <<"7", "7">>)
    \/ StartsWith(l, <<"6", "6">>)

\* the data lines of the active part
PartALine(data, l) ==
    IF MatchesMandatory(l) THEN MandatoryLine(data, l)
    ELSE IF StartsWith(l, <<"8", "8">>) THEN TropopauseLine(data, l)
    ELSE IF StartsWith(l, <<"7", "7">>) \/ StartsWith(l, <<"6", "6">>)
         THEN MaxWindLine(data, l)
    ELSE Outcome(data, "none", 0)

\* A faulty variant of the block of Part B, which the property of the
\* untouched sequences tells from it: it takes the mandatory levels too.
PartBLineTakesMandatory(data, l) ==
    IF MatchesMandatory(l) THEN MandatoryLine(data, l)
    ELSE IF MatchesSignificant(l) THEN SignificantTempLine(data, l)
    ELSE IF StartsWith(l, <<"2", "1", "2", "1", "2">>) THEN SignificantWindLine(data, l)
    ELSE Outcome(data, "none", 0)

\* the data lines of Part B
PartBLine(data, l) ==
    IF MatchesSignificant(l) THEN SignificantTempLine(data, l)
    ELSE IF StartsWith(l, <<"2", "1", "2", "1", "2">>) THEN SignificantWindLine(data, l)
    ELSE Outcome(data, "none", 0)

\* one pass of the loop: line l at index n, a and b the active flags before it
LoopBody(n, l, a, b, data) ==
    IF n = 0 THEN SerialLine(data, l)
    ELSE IF n = 1 THEN WmoHeaderLine(data, l)
    ELSE IF StartsWith(l, XXAA) THEN PartHeaderLine(data, "a", l)
    ELSE IF StartsWith(l, XXBB) THEN PartHeaderLine(data, "b", l)
    ELSE IF StartsWith(l, <<"3", "1", "3", "1", "3">>) THEN SoundingSystemLine(data, l)
    ELSE IF StartsWith(l, <<"6", "1", "6", "1", "6">>) THEN MissionInfoLine(data, l)
    ELSE IF StartsWith(l, <<"6", "2", "6", "2", "6">>) THEN RemarksLine(data, l)
    ELSE IF a /\ PartAHandles(l) THEN PartALine(data, l)
    ELSE IF b THEN PartBLine(data, l)
    ELSE Outcome(data, "none", 0)

-----------------------------------------------------------------------------
(* The timestamp of the source identifier *)

\* filename.split('.'): empty pieces are kept
RECURSIVE SplitDotFrom(_, _, _)
SplitDotFrom(s, cur, acc) ==
    IF s = <<>> THEN Append(acc, cur)
    ELSE IF Head(s) = "." THEN SplitDotFrom(Tail(s), <<>>, Append(acc, cur))
         ELSE SplitDotFrom(Tail(s), Append(cur, Head(s)), acc)

SplitDot(s) == SplitDotFrom(s, <<>>, <<>>)

IsDigitAt(s, p) == p <= Len(s) /\ s[p] \in Digits

\* the two-digit number at position p
TwoDigits(s, p) == 10 * DigitVal(s[p]) + DigitVal(s[p + 1])

\* the alternatives of a directive of the format, in the order the regular
\* expression of strptime tries them: the widths that match at position p
FieldWidths(s, p, field) ==
    LET two == IsDigitAt(s, p) /\ IsDigitAt(s, p + 1)
        n == TwoDigits(s, p)
        one == IsDigitAt(s, p)
        d == DigitVal(s[p])
    IN IF field = "m"
       THEN (IF two /\ 1 <= n /\ n <= 12 THEN <<2>> ELSE <<>>)
            \o (IF one /\ d >= 1 THEN <<1>> ELSE <<>>)
       ELSE IF field = "d"
       THEN (IF two /\ 1 <= n /\ n <= 31 THEN <<2>> ELSE <<>>)
            \o (IF one /\ d >= 1 THEN <<1>> ELSE <<>>)
       ELSE IF field = "H"
       THEN (IF two /\ n <= 23 THEN <<2>> ELSE <<>>)
            \o (IF one THEN <<1>> ELSE <<>>)
       ELSE (IF two /\ n <= 59 THEN <<2>> ELSE <<>>)
            \o (IF one THEN <<1>> ELSE <<>>)

StampFields == <<"m", "d", "H", "M">>

\* the match of the fields from field k at position p: the widths taken (the
\* first alternative with which the rest matches), <<0>> when none matches
RECURSIVE MatchStamp(_, _, _)
MatchStamp(s, p, k) ==
    IF k > Len(StampFields) THEN <<>>
    ELSE LET ws == FieldWidths(s, p, StampFields[k])
             ok(w) == MatchStamp(s, p + w, k + 1) # <<0>>
         IN IF ws # <<>> /\ ok(ws[1]) THEN <<ws[1]>> \o MatchStamp(s, p + ws[1], k + 1)
            ELSE IF Len(ws) = 2 /\ ok(ws[2])
                 THEN <<ws[2]>> \o MatchStamp(s, p + ws[2], k + 1)
            ELSE <<0>>

NumberAt(s, p, w) == DecimalValue(SubSeq(s, p, p + w - 1))

IsLeap(y) == (y % 4 = 0 /\ y % 100 # 0) \/ y % 400 = 0

DaysInMonth(y, m) ==
    IF m = 2 THEN (IF IsLeap(y) THEN 29 ELSE 28)
    ELSE IF m \in {4, 6, 9, 11} THEN 30 ELSE 31

\* datetime.strptime(s, '%Y%m%d%H%M'): the datetime, or ValueError
Strptime(s) ==
    LET year4 == \A p \in 1..4 : IsDigitAt(s, p)
        w == MatchStamp(s, 5, 1)
        Y == NumberAt(s, 1, 4)
        m == NumberAt(s, 5, w[1])
        d == NumberAt(s, 5 + w[1], w[2])
        H == NumberAt(s, 5 + w[1] + w[2], w[3])
        M == NumberAt(s, 5 + w[1] + w[2] + w[3], w[4])
    IN IF ~year4 \/ w = <<0>> THEN Raised("ValueError", "format")
       ELSE IF 4 + w[1] + w[2] + w[3] + w[4] # Len(s)
            THEN Raised("ValueError", "unconverted data remains")
       ELSE IF Y < 1 \/ d > DaysInMonth(Y, m)
            THEN Raised("ValueError", "out of range")
       ELSE Returned([year |-> Y, month |-> m, day |-> d, hour |-> H, minute |-> M])

\* the start of parse_temp_drop on the file name of the uri: message_date, or
\* the exception that leaves the function; now is datetime.now(timezone.utc)
\* A faulty variant of ParseFilename, which the property of the repeated
\* decoding tells from it: the clock is read whatever the file name.
ParseFilenameNow(filename, now) ==
    IF Len(SplitDot(filename)) < 2
    THEN Raised("IndexError", "list index out of range")
    ELSE [exc |-> "none", msg |-> "",
          val |-> [source |-> "now", at |-> now], warn |-> 1]

ParseFilename(filename, now) ==
    LET pieces == SplitDot(filename)
        stamp == Strptime(pieces[Len(pieces) - 1])
    IN IF Len(pieces) < 2 THEN Raised("IndexError", "list index out of range")
       ELSE IF stamp.exc = "none"
            THEN [exc |-> "none", msg |-> "",
                  val |-> [source |-> "filename", at |-> stamp.val], warn |-> 0]
            ELSE [exc |-> "none", msg |-> "",
                  val |-> [source |-> "now", at |-> now], warn |-> 1]

-----------------------------------------------------------------------------
(* The decoder as a whole *)

\* for i, line in enumerate(lines), from the index n on: the report, the
\* exception that left the loop and the warnings printed
RECURSIVE LoopFrom(_, _, _, _, _, _)
LoopFrom(lines, n, a, b, data, warn) ==
    IF n >= Len(lines) THEN [data |-> data, exc |-> "none", warn |-> warn]
    ELSE With(LoopBody(n, lines[n + 1], a, b, data), LAMBDA r :
             IF r.escapes
             THEN [data |-> r.data, exc |-> r.exc, warn |-> warn + r.warn]
             ELSE LoopFrom(lines, n + 1,
                           NextPartA(n, lines[n + 1], a),
                           NextPartB(n, lines[n + 1], b),
                           r.data, warn + r.warn))

\* parse_temp_drop(message, uri), on the trimmed non-empty lines of the
\* message and the file name of the uri, now being what the clock reads:
\* the report and its message_date, or the exception raised
parse_temp_drop(lines, filename, now) ==
    With(ParseFilename(filename, now), LAMBDA stamp :
        IF stamp.exc # "none"
        THEN [exc |-> stamp.exc, report |-> None, message_date |-> None, warn |-> 0]
        ELSE With(LoopFrom(lines, 0, FALSE, FALSE, InitialReport, stamp.warn),
                  LAMBDA r :
                      IF r.exc # "none"
                      THEN [exc |-> r.exc, report |-> None, message_date |-> None,
                            warn |-> r.warn]
                      ELSE [exc |-> "none", report |-> Some(r.data),
                            message_date |-> Some(stamp.val), warn |-> r.warn]))

-----------------------------------------------------------------------------
(* The projection to a catalogue item and the coordinate verification *)

\* convert_dropsonde_to_stac_item: the id, the geometry, the bbox and the
\* "where" properties of the item
convert_dropsonde_to_stac_item(data, date) ==
    LET header == data.header
        longitude == DictGet(header, "part_a_longitude")
        latitude == DictGet(header, "part_a_latitude")
        missing == longitude = None \/ latitude = None
    IN [id |-> <<IF Has(header, "wmo_header") THEN header["wmo_header"]
                 ELSE <<"u", "n", "k", "n", "o", "w", "n">>,
                 IF Has(header, "icao_originator") THEN header["icao_originator"]
                 ELSE <<"u", "n", "k", "n", "o", "w", "n">>,
                 date>>,
        geometry |-> IF missing THEN None
                     ELSE Some([type |-> "Point",
                                coordinates |-> <<longitude[1], latitude[1]>>]),
        bbox |-> IF missing THEN None
                 ELSE Some(<<longitude[1], latitude[1], longitude[1], latitude[1]>>),
        latitude |-> latitude,
        longitude |-> longitude,
        marsden_square |-> DictGet(header, "part_a_marsden_square")]

\* the two asserts of verify_lat_longs on one report: "True", "False" (an
\* assert failed), or the KeyError of a missing key
CompareFixes(report) ==
    LET header == report.header
    IN IF ~Has(header, "part_a_latitude") \/ ~Has(header, "part_b_latitude")
       THEN "KeyError"
       ELSE IF ~FloatEq(header["part_a_latitude"], header["part_b_latitude"])
            THEN "False"
       ELSE IF ~Has(header, "part_a_longitude") \/ ~Has(header, "part_b_longitude")
            THEN "KeyError"
       ELSE IF ~FloatEq(header["part_a_longitude"], header["part_b_longitude"])
            THEN "False"
       ELSE "True"

\* for file in files, from the k-th: the result, and the file it stopped at
RECURSIVE VerifyFrom(_, _)
VerifyFrom(files, k) ==
    IF k > Len(files) THEN [result |-> "True", file |-> 0]
    ELSE With(CompareFixes(files[k]), LAMBDA same :
             IF same = "True" THEN VerifyFrom(files, k + 1)
             ELSE [result |-> same, file |-> k])

\* verify_lat_longs(directory): the reports of the directory in the order
\* os.listdir gives them; True, or False with the message that names the
\* first file whose fixes differ, or the KeyError that leaves the function
verify_lat_longs(files) == VerifyFrom(files, 1)

\* before verify_lat_longs is called
NotVerified == [result |-> "unset", file |-> 0]

-----------------------------------------------------------------------------
(* The inputs of the model *)

\* "000"
Serial ==
    <<"0", "0", "0">>

\* "UZNT13 KNHC 232347"
WmoHeader ==
    <<"U", "Z", "N", "T", "1", "3", " ", "K", "N", "H", "C", " ", "2", "3",
      "2", "3", "4", "7">>

\* "UZNT13 KNHC"
WmoHeaderShort ==
    <<"U", "Z", "N", "T", "1", "3", " ", "K", "N", "H", "C">>

\* "XXAA 73237 99100 70800 08167"
PartA_Fix ==
    <<"X", "X", "A", "A", " ", "7", "3", "2", "3", "7", " ", "9", "9", "1",
      "0", "0", " ", "7", "0", "8", "0", "0", " ", "0", "8", "1", "6", "7">>

\* "XXAA 73237 99100 30800 08167"
PartA_South ==
    <<"X", "X", "A", "A", " ", "7", "3", "2", "3", "7", " ", "9", "9", "1",
      "0", "0", " ", "3", "0", "8", "0", "0", " ", "0", "8", "1", "6", "7">>

\* "XXAA 7323 99100 70800 08167"
PartA_ShortTime ==
    <<"X", "X", "A", "A", " ", "7", "3", "2", "3", " ", "9", "9", "1", "0",
      "0", " ", "7", "0", "8", "0", "0", " ", "0", "8", "1", "6", "7">>

\* "XXAA 73237 99X00 70800 08167"
PartA_BadLatitude ==
    <<"X", "X", "A", "A", " ", "7", "3", "2", "3", "7", " ", "9", "9", "X",
      "0", "0", " ", "7", "0", "8", "0", "0", " ", "0", "8", "1", "6", "7">>

\* "XXAA 73237 99100 7X800 08167"
PartA_BadLongitude ==
    <<"X", "X", "A", "A", " ", "7", "3", "2", "3", "7", " ", "9", "9", "1",
      "0", "0", " ", "7", "X", "8", "0", "0", " ", "0", "8", "1", "6", "7">>

\* "XXAA 73237"
PartA_FewTokens ==
    <<"X", "X", "A", "A", " ", "7", "3", "2", "3", "7">>

\* "XXAA 73237 99100 70800 0816"
PartA_ShortMarsden ==
    <<"X", "X", "A", "A", " ", "7", "3", "2", "3", "7", " ", "9", "9", "1",
      "0", "0", " ", "7", "0", "8", "0", "0", " ", "0", "8", "1", "6">>

\* "XXBB 73238 99100 70800 08167"
PartB_Fix ==
    <<"X", "X", "B", "B", " ", "7", "3", "2", "3", "8", " ", "9", "9", "1",
      "0", "0", " ", "7", "0", "8", "0", "0", " ", "0", "8", "1", "6", "7">>

\* "XXBB 73238 99101 70800 08167"
PartB_OtherFix ==
    <<"X", "X", "B", "B", " ", "7", "3", "2", "3", "8", " ", "9", "9", "1",
      "0", "1", " ", "7", "0", "8", "0", "0", " ", "0", "8", "1", "6", "7">>

\* "XXBB 7323 99100 70800 08167"
PartB_ShortTime ==
    <<"X", "X", "B", "B", " ", "7", "3", "2", "3", " ", "9", "9", "1", "0",
      "0", " ", "7", "0", "8", "0", "0", " ", "0", "8", "1", "6", "7">>

\* "XXBB 73238 99100 X0800 08167"
PartB_BadQuadrant ==
    <<"X", "X", "B", "B", " ", "7", "3", "2", "3", "8", " ", "9", "9", "1",
      "0", "0", " ", "X", "0", "8", "0", "0", " ", "0", "8", "1", "6", "7">>

\* "99014 25401 09029"
Mandatory1 ==
    <<"9", "9", "0", "1", "4", " ", "2", "5", "4", "0", "1", " ", "0", "9",
      "0", "2", "9">>

\* "00125 24400 09531 92808 20620 10032"
Mandatory2 ==
    <<"0", "0", "1", "2", "5", " ", "2", "4", "4", "0", "0", " ", "0", "9",
      "5", "3", "1", " ", "9", "2", "8", "0", "8", " ", "2", "0", "6", "2",
      "0", " ", "1", "0", "0", "3", "2">>

\* "70123 10270 99905 85512 12100 00000 50587 05912 27015"
Mandatory3 ==
    <<"7", "0", "1", "2", "3", " ", "1", "0", "2", "7", "0", " ", "9", "9",
      "9", "0", "5", " ", "8", "5", "5", "1", "2", " ", "1", "2", "1", "0",
      "0", " ", "0", "0", "0", "0", "0", " ", "5", "0", "5", "8", "7", " ",
      "0", "5", "9", "1", "2", " ", "2", "7", "0", "1", "5">>

\* "99014 2X401 09029 00125 24400 09531"
MandatoryNonDigit ==
    <<"9", "9", "0", "1", "4", " ", "2", "X", "4", "0", "1", " ", "0", "9",
      "0", "2", "9", " ", "0", "0", "1", "2", "5", " ", "2", "4", "4", "0",
      "0", " ", "0", "9", "5", "3", "1">>

\* "31313 09608 82347"
SoundingSystem ==
    <<"3", "1", "3", "1", "3", " ", "0", "9", "6", "0", "8", " ", "8", "2",
      "3", "4", "7">>

\* "88999"
TropopauseNotObserved ==
    <<"8", "8", "9", "9", "9">>

\* "77150 27045"
MaxWind ==
    <<"7", "7", "1", "5", "0", " ", "2", "7", "0", "4", "5">>

\* "11850 12345 22700 05612"
SignificantTemp ==
    <<"1", "1", "8", "5", "0", " ", "1", "2", "3", "4", "5", " ", "2", "2",
      "7", "0", "0", " ", "0", "5", "6", "1", "2">>

\* "21212 11850 09029 22700 10032"
SignificantWind ==
    <<"2", "1", "2", "1", "2", " ", "1", "1", "8", "5", "0", " ", "0", "9",
      "0", "2", "9", " ", "2", "2", "7", "0", "0", " ", "1", "0", "0", "3",
      "2">>

\* "61616 AF309 0109A IDALIA OB 07"
MissionInfo ==
    <<"6", "1", "6", "1", "6", " ", "A", "F", "3", "0", "9", " ", "0", "1",
      "0", "9", "A", " ", "I", "D", "A", "L", "I", "A", " ", "O", "B", " ",
      "0", "7">>

\* "62626 EYE REL 12.5N 80.5W 23/2347Z WL 150"
RemarksRel ==
    <<"6", "2", "6", "2", "6", " ", "E", "Y", "E", " ", "R", "E", "L", " ",
      "1", "2", ".", "5", "N", " ", "8", "0", ".", "5", "W", " ", "2", "3",
      "/", "2", "3", "4", "7", "Z", " ", "W", "L", " ", "1", "5", "0">>

\* "62626 MBL WND 2347Z 090/25 KNOTS AT 500 FEET DLM WND 095/30 at 8000 FT WL 500 FT 090/28"
RemarksWind ==
    <<"6", "2", "6", "2", "6", " ", "M", "B", "L", " ", "W", "N", "D", " ",
      "2", "3", "4", "7", "Z", " ", "0", "9", "0", "/", "2", "5", " ", "K",
      "N", "O", "T", "S", " ", "A", "T", " ", "5", "0", "0", " ", "F", "E",
      "E", "T", " ", "D", "L", "M", " ", "W", "N", "D", " ", "0", "9", "5",
      "/", "3", "0", " ", "a", "t", " ", "8", "0", "0", "0", " ", "F", "T",
      " ", "W", "L", " ", "5", "0", "0", " ", "F", "T", " ", "0", "9", "0",
      "/", "2", "8">>

\* "62626 AEV 2347Z 12.5N 80.5W PSN EYEWALL 2347Z, 500 ft REL 1N REL 2N"
RemarksEye ==
    <<"6", "2", "6", "2", "6", " ", "A", "E", "V", " ", "2", "3", "4", "7",
      "Z", " ", "1", "2", ".", "5", "N", " ", "8", "0", ".", "5", "W", " ",
      "P", "S", "N", " ", "E", "Y", "E", "W", "A", "L", "L", " ", "2", "3",
      "4", "7", "Z", ",", " ", "5", "0", "0", " ", "f", "t", " ", "R", "E",
      "L", " ", "1", "N", " ", "R", "E", "L", " ", "2", "N">>

\* "62626 SPG 1.2.3N 80.5W"
RemarksBadFloat ==
    <<"6", "2", "6", "2", "6", " ", "S", "P", "G", " ", "1", ".", "2", ".",
      "3", "N", " ", "8", "0", ".", "5", "W">>

\* "NNNN"
EndOfMessage ==
    <<"N", "N", "N", "N">>

\* "REPNT3-KNHC.202401232347.txt"
UriStamped ==
    <<"R", "E", "P", "N", "T", "3", "-", "K", "N", "H", "C", ".", "2", "0",
      "2", "4", "0", "1", "2", "3", "2", "3", "4", "7", ".", "t", "x", "t">>

\* "REPNT3-KNHC.202413232347.txt"
UriBadStamp ==
    <<"R", "E", "P", "N", "T", "3", "-", "K", "N", "H", "C", ".", "2", "0",
      "2", "4", "1", "3", "2", "3", "2", "3", "4", "7", ".", "t", "x", "t">>

\* "REPNT3.txt"
UriNoStamp ==
    <<"R", "E", "P", "N", "T", "3", ".", "t", "x", "t">>

\* "REPNT3"
UriNoDot ==
    <<"R", "E", "P", "N", "T", "3">>


\* the source identifiers (the file name of the uri)
UriPool == {UriStamped, UriBadStamp, UriNoStamp, UriNoDot}

\* datetime.now(timezone.utc), when the fallback reads it
Clock == {"now1", "now2"}

\* the lines of a message, trimmed and non-empty as the list comprehension
\* of parse_temp_drop leaves them: at index 0, at index 1 (a message may
\* lack its WMO header line and go on with Part A), and after
DataLines ==
    {PartA_Fix, PartA_South, PartA_ShortTime, PartA_BadLatitude,
     PartA_BadLongitude, PartA_FewTokens, PartA_ShortMarsden,
     PartB_Fix, PartB_OtherFix, PartB_ShortTime, PartB_BadQuadrant,
     Mandatory1, Mandatory2, Mandatory3, MandatoryNonDigit,
     SoundingSystem, TropopauseNotObserved, MaxWind,
     SignificantTemp, SignificantWind, MissionInfo,
     RemarksRel, RemarksWind, RemarksEye, RemarksBadFloat, EndOfMessage}

LinesAt(n) ==
    IF n = 0 THEN {Serial}
    ELSE IF n = 1 THEN {WmoHeader, WmoHeaderShort, PartA_Fix}
    ELSE DataLines

\* the other reports that the directory parsed_reports may hold, by the
\* fixes of their headers: the fixes agree, they differ, there is no Part B
FixA == [part_a_latitude |-> Float(FALSE, 100), part_a_longitude |-> Float(TRUE, 800)]

FixB(lat) == [part_b_latitude |-> lat, part_b_longitude |-> Float(TRUE, 800)]

OtherReports ==
    {[InitialReport EXCEPT !.header = FixA @@ FixB(Float(FALSE, 100))],
     [InitialReport EXCEPT !.header = FixA @@ FixB(Float(FALSE, 101))],
     [InitialReport EXCEPT !.header = FixA]}

\* os.listdir of parsed_reports: the report alone, or with one other report
\* before or after it (the order of os.listdir is arbitrary)
Directories(report) ==
    {<<report>>}
    \cup {<<other, report>> : other \in OtherReports}
    \cup {<<report, other>> : other \in OtherReports}

-----------------------------------------------------------------------------
(* The decoder as a state machine *)

Init ==
    /\ pc = "start"
    /\ uri \in UriPool
    /\ message_date = None
    /\ i = 0
    /\ line = <<>>
    /\ part_a_active = FALSE
    /\ part_b_active = FALSE
    /\ parsed_data = InitialReport
    /\ exc = "none"
    /\ warnings = 0
    /\ stac_item = None
    /\ directory = <<>>
    /\ verified = NotVerified
    /\ group = <<>>
    /\ decoded = None
    /\ CallersIdle

\* parse_temp_drop up to the loop: the timestamp of the file name
ParseUri ==
    /\ pc = "start"
    /\ \E now \in Clock :
         \E r \in {ParseFilename(uri, now)} :
            IF r.exc = "none"
            THEN /\ pc' = "lines"
                 /\ message_date' = Some(r.val)
                 /\ warnings' = warnings + r.warn
                 /\ exc' = exc
            ELSE /\ pc' = "raised"
                 /\ exc' = r.exc
                 /\ UNCHANGED <<message_date, warnings>>
    /\ UNCHANGED <<uri, i, line, part_a_active, part_b_active, parsed_data,
                   stac_item, directory, verified, group, decoded>>
    /\ UNCHANGED callers

\* one pass of the loop over the lines
ProcessLine ==
    /\ pc = "lines"
    /\ i < MaxLines
    /\ \E l \in LinesAt(i) :
         \E r \in {LoopBody(i, l, part_a_active, part_b_active, parsed_data)} :
            /\ line' = l
            /\ i' = i + 1
            /\ part_a_active' = NextPartA(i, l, part_a_active)
            /\ part_b_active' = NextPartB(i, l, part_b_active)
            /\ parsed_data' = r.data
            /\ warnings' = warnings + r.warn
            /\ IF ~r.escapes
               THEN pc' = pc /\ exc' = exc
               ELSE pc' = "raised" /\ exc' = r.exc
    /\ UNCHANGED <<uri, message_date, stac_item, directory, verified, group,
                   decoded>>
    /\ UNCHANGED callers

\* the loop ends with the last line: return parsed_data
Return ==
    /\ pc = "lines"
    /\ pc' = "done"
    /\ UNCHANGED <<uri, message_date, i, line, part_a_active, part_b_active,
                   parsed_data, exc, warnings, stac_item, directory, verified, group,
                   decoded>>
    /\ UNCHANGED callers

\* main of nhc_recon_parser: the report is projected to an item
Convert ==
    /\ pc = "done"
    /\ pc' = "converted"
    /\ stac_item' = Some(convert_dropsonde_to_stac_item(parsed_data, message_date))
    /\ UNCHANGED <<uri, message_date, i, line, part_a_active, part_b_active,
                   parsed_data, exc, warnings, directory, verified, group,
                   decoded>>
    /\ UNCHANGED callers

\* main of stac_catalog: the coordinates of the reports are verified
Verify ==
    /\ pc = "done"
    /\ \E files \in Directories(parsed_data) :
          \E r \in {verify_lat_longs(files)} :
             /\ directory' = files
             /\ verified' = r
             /\ IF r.result = "KeyError"
                THEN pc' = "raised" /\ exc' = "KeyError"
                ELSE pc' = "verified" /\ exc' = exc
    /\ UNCHANGED <<uri, message_date, i, line, part_a_active, part_b_active,
                   parsed_data, warnings, stac_item, group, decoded>>
    /\ UNCHANGED callers

Next == ParseUri \/ ProcessLine \/ Return \/ Convert \/ Verify

Spec == Init /\ [][Next]_vars

-----------------------------------------------------------------------------
(* The group decoders on their own: each is applied to a group *)

\* the digits the second, third and fifth place of a group are drawn from
PlaceDigits == {"0", "1", "2", "5", "9"}

\* groups of five digits, every leading digit and every sign digit
FiveDigitGroups ==
    {<<d1, d2, d3, d4, d5>> :
        d1 \in Digits, d2 \in PlaceDigits, d3 \in PlaceDigits,
        d4 \in Digits, d5 \in PlaceDigits}

\* groups that are not five digits
MalformedGroups ==
    {<<>>,
     <<"1", "2", "3", "4">>,
     <<"1", "2", "3", "4", "5", "6">>,
     <<"1", "2", "X", "0", "5">>,
     <<"1", "2", "3", "X", "5">>,
     <<"1", "2", "3", "0", "X">>,
     <<"-", "1", "2", "0", "5">>,
     <<"+", "1", "2", "1", "5">>,
     <<" ", "1", "2", "0", "5">>,
     <<"1", "_", "2", "0", "5">>,
     <<"1", "2", "3", "0", " ">>}

InitDecode ==
    /\ pc = "group"
    /\ group \in FiveDigitGroups \cup MalformedGroups
    /\ decoded = None
    /\ uri = <<>>
    /\ message_date = None
    /\ i = 0
    /\ line = <<>>
    /\ part_a_active = FALSE
    /\ part_b_active = FALSE
    /\ parsed_data = InitialReport
    /\ exc = "none"
    /\ warnings = 0
    /\ stac_item = None
    /\ directory = <<>>
    /\ verified = NotVerified
    /\ CallersIdle

DecodePressureHeight ==
    /\ pc = "group"
    /\ pc' = "pressure_height"
    /\ decoded' = decode_pressure_height(group)
    /\ UNCHANGED <<uri, message_date, i, line, part_a_active, part_b_active,
                   parsed_data, exc, warnings, stac_item, directory, verified,
                   group>>
    /\ UNCHANGED callers

DecodeTempDewpoint ==
    /\ pc = "group"
    /\ pc' = "temp_dewpoint"
    /\ decoded' = decode_temp_dewpoint(group)
    /\ UNCHANGED <<uri, message_date, i, line, part_a_active, part_b_active,
                   parsed_data, exc, warnings, stac_item, directory, verified,
                   group>>
    /\ UNCHANGED callers

DecodeWind ==
    /\ pc = "group"
    /\ pc' = "wind"
    /\ decoded' = decode_wind(group)
    /\ UNCHANGED <<uri, message_date, i, line, part_a_active, part_b_active,
                   parsed_data, exc, warnings, stac_item, directory, verified,
                   group>>
    /\ UNCHANGED callers

DecodeTempDewpointCatalog ==
    /\ pc = "group"
    /\ pc' = "catalog_temp_dewpoint"
    /\ decoded' = catalog_decode_temp_dewpoint(group)
    /\ UNCHANGED <<uri, message_date, i, line, part_a_active, part_b_active,
                   parsed_data, exc, warnings, stac_item, directory, verified,
                   group>>
    /\ UNCHANGED callers

NextDecode ==
    \/ DecodePressureHeight
    \/ DecodeTempDewpoint
    \/ DecodeWind
    \/ DecodeTempDewpointCatalog

SpecDecode == InitDecode /\ [][NextDecode]_vars

-----------------------------------------------------------------------------
(* One pass of the loop, on a line of a larger pool *)

\* part marker lines of five tokens, every quadrant code
HeaderLines ==
    {marker \o <<" ", "7", "3", "2", "3", "7", " ", "9", "9">> \o lat \o <<" ", q>> \o lon \o <<" ", "0", "8", "1", "6", "7">> :
        marker \in {XXAA, XXBB},
        lat \in {<<"1", "0", "0">>, <<"0", "0", "0">>},
        q \in Digits,
        lon \in {<<"0", "8", "0", "0">>, <<"0", "0", "0", "0">>}}

\* lines of the tropopause: the sentinel, three groups, a bad sign digit, a
\* short temperature group, two groups, four groups
TropopauseLines ==
    {<<"8", "8", "9", "9", "9">>,
     <<"8", "8", "1", "5", "0", " ", "1", "2", "5", "1", "0", " ", "0", "9", "0", "5", "0">>,
     <<"8", "8", "1", "5", "0", " ", "1", "2", "5", "7", "0", " ", "0", "9", "0", "5", "0">>,
     <<"8", "8", "1", "5", "0", " ", "1", "2", "5", "1", " ", "0", "9", "0", "5", "0">>,
     <<"8", "8", "1", "5", "0", " ", "1", "2", "5", "1", "0">>,
     <<"8", "8", "1", "5", "0", " ", "1", "2", "5", "1", "0", " ", "0", "9", "0", "5", "0", " ", "1", "2", "3", "4", "5">>}

\* lines of the maximum wind: the sentinel, two groups with either marker,
\* a shear group, a third group that is no shear group, a short wind group,
\* a shear group after a wind of less than 20 knots
MaxWindLines ==
    {<<"7", "7", "1", "2", "3", " ", "0", "9", "0", "0", "5", " ", "4", "0", "5", "1", "2">>,
     <<"7", "7", "9", "9", "9">>,
     <<"7", "7", "1", "2", "3", " ", "0", "9", "0", "5", "0">>,
     <<"6", "6", "1", "2", "3", " ", "0", "9", "0", "5", "0">>,
     <<"7", "7", "1", "2", "3", " ", "0", "9", "0", "5", "0", " ", "4", "0", "5", "1", "2">>,
     <<"6", "6", "1", "2", "3", " ", "0", "9", "0", "5", "0", " ", "4", "0", "5", "1", "2">>,
     <<"7", "7", "1", "2", "3", " ", "0", "9", "0", "5", "0", " ", "1", "2", "3", "4", "5", " ", "1">>,
     <<"7", "7", "1", "2", "3", " ", "0", "9", "0", "5">>}

\* lines of the sounding system: well-formed, a letter in the launch time,
\* two tokens
SoundingSystemLines ==
    {<<"3", "1", "3", "1", "3", " ", "0", "9", "6", "0", "8", " ", "8", "2", "3", "4", "7">>,
     <<"3", "1", "3", "1", "3", " ", "0", "9", "6", "0", "8", " ", "8", "X", "3", "4", "7">>,
     <<"3", "1", "3", "1", "3", " ", "0", "9", "6", "0", "8">>}

\* lines of the significant levels: one pair, two pairs, two pairs with a
\* bad sign digit in the second, the wind marker
\* with one pair, with two pairs of which one has the direction 999, with
\* a pair and a half
SignificantLines ==
    {<<"1", "1", "8", "5", "0", " ", "1", "2", "3", "0", "5">>,
     <<"1", "1", "8", "5", "0", " ", "1", "2", "3", "0", "5", " ", "2",
       "2", "7", "0", "0", " ", "0", "5", "6", "1", "2">>,
     <<"1", "1", "8", "5", "0", " ", "1", "2", "3", "0", "5", " ", "2",
       "2", "7", "0", "0", " ", "0", "5", "6", "7", "2">>,
     <<"2", "1", "2", "1", "2", " ", "1", "1", "8", "5", "0", " ", "0",
       "9", "0", "2", "9">>,
     <<"2", "1", "2", "1", "2", " ", "1", "1", "8", "5", "0", " ", "9",
       "9", "9", "2", "9", " ", "2", "2", "7", "0", "0", " ", "1", "0",
       "0", "3", "2">>,
     <<"2", "1", "2", "1", "2", " ", "1", "1", "8", "5", "0", " ", "0",
       "9", "0", "2", "9", " ", "2", "2", "7", "0", "0">>}

\* lines of the mission info: OB and the storm number with no storm name
\* before, after an observation period and before free text; one token
MissionInfoLines ==
    {<<"6", "1", "6", "1", "6", " ", "A", "F", "3", "0", "9", " ", "0",
       "1", "0", "9", "A", " ", "O", "B", " ", "0", "7">>,
     <<"6", "1", "6", "1", "6", " ", "A", "F", "3", "0", "9", " ", "0",
       "1", "0", "9", "A", " ", "I", "O", "P", "1", " ", "O", "B", " ",
       "0", "7", " ", "E", "X", "T", "R", "A", " ", "x", " ", "M", "O",
       "R", "E">>,
     <<"6", "1", "6", "1", "6", " ", "A", "F", "3", "0", "9">>}

LinePool ==
    HeaderLines \cup TropopauseLines \cup MaxWindLines \cup SoundingSystemLines
        \cup SignificantLines \cup MissionInfoLines
        \cup {EndOfMessage, MandatoryNonDigit, Mandatory3, MissionInfo,
              RemarksRel, RemarksWind, RemarksEye, RemarksBadFloat}
        \cup {PartA_BadLatitude, PartA_BadLongitude, PartA_FewTokens,
              PartB_BadQuadrant, Mandatory1, Mandatory2, SignificantTemp,
              SignificantWind}

\* the report after the serial line and a WMO header line of one token
AfterHeaderLines ==
    [InitialReport EXCEPT !.header = DictSet(EmptyDict, "sonde_serial", Serial)]

\* the lines read before the pass, after the two header lines: none, a
\* part marker alone, the lines of Part A and the marker of Part B, the
\* lines of Part B, those and the marker of Part A, a remarks line
LinesBefore ==
    {<<>>, <<XXAA>>, <<XXBB>>,
     <<XXAA, Mandatory1, TropopauseNotObserved, MaxWind, XXBB>>,
     <<XXBB, SignificantTemp, SignificantWind>>,
     <<XXBB, SignificantTemp, SignificantWind, XXAA>>,
     <<RemarksRel>>, <<RemarksWind>>}

\* the active flags after the lines from the index n on
RECURSIVE ActiveFrom(_, _, _, _)
ActiveFrom(lines, n, a, b) ==
    IF n >= Len(lines) THEN <<a, b>>
    ELSE ActiveFrom(lines, n + 1, NextPartA(n, lines[n + 1], a),
                    NextPartB(n, lines[n + 1], b))

\* before the pass: the two header lines and the lines before have been read
InitLine ==
    /\ pc = "line"
    /\ line \in LinePool
    /\ \E before \in LinesBefore :
          \E lines \in {<<Serial, WmoHeaderShort>> \o before} :
             \E active \in {ActiveFrom(lines, 2, FALSE, FALSE)},
                r \in {LoopFrom(lines, 2, FALSE, FALSE, AfterHeaderLines, 0)} :
                /\ i = Len(lines)
                /\ part_a_active = active[1]
                /\ part_b_active = active[2]
                /\ parsed_data = r.data
                /\ warnings = r.warn
    /\ uri = <<>>
    /\ message_date = None
    /\ exc = "none"
    /\ stac_item = None
    /\ directory = <<>>
    /\ verified = NotVerified
    /\ group = <<>>
    /\ decoded = None
    /\ CallersIdle

\* the pass of the loop over the line
ReadLine ==
    /\ pc = "line"
    /\ \E r \in {LoopBody(i, line, part_a_active, part_b_active, parsed_data)} :
          /\ i' = i + 1
          /\ part_a_active' = NextPartA(i, line, part_a_active)
          /\ part_b_active' = NextPartB(i, line, part_b_active)
          /\ parsed_data' = r.data
          /\ warnings' = warnings + r.warn
          /\ IF ~r.escapes
             THEN pc' = "read" /\ exc' = exc
             ELSE pc' = "raised" /\ exc' = r.exc
    /\ UNCHANGED <<uri, message_date, line, stac_item, directory, verified,
                   group, decoded>>
    /\ UNCHANGED callers

SpecLine == InitLine /\ [][ReadLine]_vars

\* before the pass over one of the two header lines: nothing has been read,
\* or the serial line
InitHead ==
    /\ pc = "line"
    /\ line \in LinePool
    /\ \E before \in {<<0, InitialReport>>, <<1, AfterHeaderLines>>} :
          /\ i = before[1]
          /\ parsed_data = before[2]
    /\ part_a_active = FALSE
    /\ part_b_active = FALSE
    /\ warnings = 0
    /\ uri = <<>>
    /\ message_date = None
    /\ exc = "none"
    /\ stac_item = None
    /\ directory = <<>>
    /\ verified = NotVerified
    /\ group = <<>>
    /\ decoded = None
    /\ CallersIdle

SpecHead == InitHead /\ [][ReadLine]_vars

-----------------------------------------------------------------------------
(* The same message decoded twice *)

\* the lines after the two header lines
TwiceLines ==
    {PartA_Fix, PartA_ShortTime, PartB_OtherFix, Mandatory2, SoundingSystem,
     MaxWind, SignificantTemp, RemarksRel, RemarksEye}

\* the messages of at most MaxLines lines
Messages ==
    {<<Serial, WmoHeader>> \o rest :
        rest \in UNION {[1..n -> TwiceLines] : n \in 0..(MaxLines - 2)}}

InitTwice ==
    /\ pc = "decode"
    /\ message \in Messages
    /\ uri \in UriPool
    /\ second = <<>>
    /\ urls = <<>>
    /\ attempted = <<>>
    /\ successful = 0
    /\ message_date = None
    /\ i = 0
    /\ line = <<>>
    /\ part_a_active = FALSE
    /\ part_b_active = FALSE
    /\ parsed_data = InitialReport
    /\ exc = "none"
    /\ warnings = 0
    /\ stac_item = None
    /\ directory = <<>>
    /\ verified = NotVerified
    /\ group = <<>>
    /\ decoded = None

\* parse_temp_drop(message, uri), at some time of the clock
DecodeOnce ==
    /\ pc = "decode"
    /\ \E now \in Clock :
          \E r \in {parse_temp_drop(message, uri, now)} :
             /\ exc' = r.exc
             /\ parsed_data' = IF r.exc = "none" THEN r.report[1] ELSE parsed_data
             /\ message_date' = r.message_date
             /\ warnings' = r.warn
    /\ pc' = "decoded"
    /\ UNCHANGED <<uri, i, line, part_a_active, part_b_active, stac_item,
                   directory, verified, group, decoded, callers>>

\* parse_temp_drop(message, uri) again, at some time of the clock
DecodeAgain ==
    /\ pc = "decoded"
    /\ \E now \in Clock :
          second' = Some(parse_temp_drop(message, uri, now))
    /\ pc' = "decoded_twice"
    /\ UNCHANGED <<uri, message_date, i, line, part_a_active, part_b_active,
                   parsed_data, exc, warnings, stac_item, directory, verified,
                   group, decoded, message, urls, attempted, successful>>

NextTwice == DecodeOnce \/ DecodeAgain

SpecTwice == InitTwice /\ [][NextTwice]_vars

-----------------------------------------------------------------------------
(* The archive mode of main: every listed message is processed *)

\* the most identifiers that the archive page lists
MaxUrls == 3

\* the identifiers that an archive page lists: the links that end in .txt,
\* in the order of the page, the same link more than once if the page
\* repeats it; a page that cannot be read lists none
ArchivePages ==
    UNION {[1..n -> {UriStamped, UriNoStamp}] : n \in 0..MaxUrls}

\* the texts that an identifier is answered with
FetchedMessages ==
    {<<Serial, WmoHeader>>,
     <<Serial, WmoHeader, PartA_Fix>>,
     <<Serial, WmoHeader, PartA_ShortTime>>}

InitBatch ==
    /\ pc = "archive"
    /\ urls \in ArchivePages
    /\ attempted = <<>>
    /\ successful = 0
    /\ message = <<>>
    /\ second = <<>>
    /\ uri = <<>>
    /\ message_date = None
    /\ i = 0
    /\ line = <<>>
    /\ part_a_active = FALSE
    /\ part_b_active = FALSE
    /\ parsed_data = InitialReport
    /\ exc = "none"
    /\ warnings = 0
    /\ stac_item = None
    /\ directory = <<>>
    /\ verified = NotVerified
    /\ group = <<>>
    /\ decoded = None

\* what no step of the archive mode touches
batch_idle == <<line, part_a_active, part_b_active, directory, verified,
                group, decoded, second, urls>>

\* the variant of a failure that ends the loop over the archive
FailedAborting(e) ==
    /\ pc' = "summary"
    /\ exc' = e

\* an exception raised inside the try of process_and_save_dropsonde: it is
\* printed, the call returns and the loop takes the next identifier
Failed(e) ==
    /\ pc' = "archive"
    /\ exc' = e

\* the loop yields the next identifier and calls process_and_save_dropsonde,
\* which counts the attempt before its try
NextUrl ==
    /\ pc = "archive"
    /\ i < Len(urls)
    /\ i' = i + 1
    /\ uri' = urls[i + 1]
    /\ attempted' = Append(attempted, urls[i + 1])
    /\ pc' = "fetch"
    /\ UNCHANGED <<message_date, parsed_data, exc, warnings, stac_item,
                   message, successful, batch_idle>>

\* read_dropsonde_message: the text of the message, or an exception
Fetch ==
    /\ pc = "fetch"
    /\ \/ /\ Failed("RequestException")
          /\ UNCHANGED message
       \/ /\ message' \in FetchedMessages
          /\ pc' = "decode"
          /\ exc' = "none"
    /\ UNCHANGED <<uri, message_date, i, parsed_data, warnings, stac_item,
                   attempted, successful, batch_idle>>

\* parse_temp_drop and convert_dropsonde_to_stac_item
Decode ==
    /\ pc = "decode"
    /\ \E now \in Clock :
          \E r \in {parse_temp_drop(message, uri, now)} :
             IF r.exc = "none"
             THEN /\ parsed_data' = r.report[1]
                  /\ message_date' = r.message_date
                  /\ warnings' = r.warn
                  /\ stac_item' =
                        Some(convert_dropsonde_to_stac_item(r.report[1],
                                                            r.message_date))
                  /\ pc' = "upload"
                  /\ exc' = "none"
             ELSE /\ Failed(r.exc)
                  /\ UNCHANGED <<parsed_data, message_date, warnings,
                                 stac_item>>
    /\ UNCHANGED <<uri, i, message, attempted, successful, batch_idle>>

\* the variant of the upload that counts the item before the call is made
UploadCountedBeforeCall ==
    /\ pc = "upload"
    /\ successful' = successful + 1
    /\ exc' \in {"none", "UploadError"}
    /\ pc' = "save"
    /\ UNCHANGED <<uri, message_date, i, parsed_data, warnings, stac_item,
                   message, attempted, batch_idle>>

\* add_item_to_collection in its own try: a failure is printed and the
\* item is saved all the same
Upload ==
    /\ pc = "upload"
    /\ \/ /\ successful' = successful + 1
          /\ exc' = "none"
       \/ /\ successful' = successful
          /\ exc' = "UploadError"
    /\ pc' = "save"
    /\ UNCHANGED <<uri, message_date, i, parsed_data, warnings, stac_item,
                   message, attempted, batch_idle>>

\* the item is written as JSON and as Parquet
Save ==
    /\ pc = "save"
    /\ \/ Failed("OSError")
       \/ /\ pc' = "archive"
          /\ exc' = exc
    /\ UNCHANGED <<uri, message_date, i, parsed_data, warnings, stac_item,
                   message, attempted, successful, batch_idle>>

\* the lister is exhausted: the finally clause prints the summary
Summary ==
    /\ pc = "archive"
    /\ i = Len(urls)
    /\ pc' = "summary"
    /\ UNCHANGED <<uri, message_date, i, parsed_data, exc, warnings,
                   stac_item, message, attempted, successful, batch_idle>>

NextBatch == NextUrl \/ Fetch \/ Decode \/ Upload \/ Save \/ Summary

\* WF_vars(Decode), with ENABLED <<Decode>>_vars written as what it comes
\* to, pc = "decode": the decoding of a message returns
DecodeReturns == []<>(pc # "decode") \/ []<><<Decode>>_vars

\* the loop is sequential code and every call of it returns: a step that
\* can be taken is taken
SpecBatch ==
    /\ InitBatch
    /\ [][NextBatch]_vars
    /\ WF_vars(NextUrl)
    /\ WF_vars(Fetch)
    /\ DecodeReturns
    /\ WF_vars(Upload)
    /\ WF_vars(Save)
    /\ WF_vars(Summary)

-----------------------------------------------------------------------------
(* Properties of the decoder, under Spec *)

\* an exception has left parse_temp_drop
ParseRaised == pc = "raised" /\ verified = NotVerified

\* a step of the loop over the lines
LineStep == pc = "lines" /\ i' = i + 1

MarkerLine(l) == StartsWith(l, XXAA) \/ StartsWith(l, XXBB)

\* a line of section 7 or of section 10
SectionLine(l) ==
    \/ StartsWith(l, <<"3", "1", "3", "1", "3">>)
    \/ StartsWith(l, <<"6", "1", "6", "1", "6">>)
    \/ StartsWith(l, <<"6", "2", "6", "2", "6">>)

\* a group of five digits
FiveDigits(g) == Len(g) = 5 /\ \A k \in 1..5 : g[k] \in Digits

\* the position fix of part P ("a" or "b") of a report
HasFix(data, P) ==
    /\ Has(data.header, PartKeys[P].latitude)
    /\ Has(data.header, PartKeys[P].longitude)

FixOf(data, P) ==
    <<data.header[PartKeys[P].latitude], data.header[PartKeys[P].longitude]>>

\* the chunks of three groups of a line, and the level of the c-th
Chunks(groups) == 1..(Len(groups) \div 3)

ChunkLevel(groups, c) ==
    MandatoryLevel(groups[3 * c - 2], groups[3 * c - 1], groups[3 * c]).val

\* the levels of the chunks of the set good, in the order of the line
LevelsOf(groups, good) ==
    [n \in 1..Cardinality(good) |-> ChunkLevel(groups, Nth(good, n))]

\* C1: a line at index >= 2 that begins with XXAA or XXBB never makes
\* parse_temp_drop raise, whatever its tokens are.
C1_MarkerLineNeverRaises == (i >= 3 /\ MarkerLine(line)) => ~ParseRaised

\* a line of k chunks of three groups of five characters, one group of
\* which holds a character that is not a digit
OneNonDigitGroup(l) ==
    LET groups == Split(l)
    IN /\ Len(groups) >= 3
       /\ Len(groups) % 3 = 0
       /\ \A k \in 1..Len(groups) : Len(groups[k]) = 5
       /\ Cardinality({k \in 1..Len(groups) : ~FiveDigits(groups[k])}) = 1

\* C2: while Part A is active, a mandatory-level line of k chunks, one group
\* of which holds a non-digit, appends the levels of the k-1 well-formed
\* chunks in the order of the line and logs a warning.
C2_NonDigitGroupDropsOneChunk ==
    [][(LineStep /\ i >= 2 /\ part_a_active /\ OneNonDigitGroup(line')) =>
          LET groups == Split(line')
              good == {c \in Chunks(groups) :
                          \A k \in (3 * c - 2)..(3 * c) : FiveDigits(groups[k])}
          IN /\ parsed_data'.part_a_mandatory_levels =
                    parsed_data.part_a_mandatory_levels \o LevelsOf(groups, good)
             /\ warnings' > warnings]_vars

\* a line of k chunks of three groups of five digits
AllDigitChunks(l) ==
    LET groups == Split(l)
    IN /\ Len(groups) >= 3
       /\ Len(groups) % 3 = 0
       /\ \A k \in 1..Len(groups) : FiveDigits(groups[k])

\* the chunks whose temperature group has the sign digit 0 or 1
GoodSign(groups) == {c \in Chunks(groups) : groups[3 * c - 1][4] \in {"0", "1"}}

\* the step appends the levels of the k-m chunks of good sign, in the order
\* of the line, logs m warnings and goes on with the loop
AppendsGoodChunks ==
    LET groups == Split(line')
        good == GoodSign(groups)
    IN /\ parsed_data'.part_a_mandatory_levels =
              parsed_data.part_a_mandatory_levels \o LevelsOf(groups, good)
       /\ warnings' = warnings + (Cardinality(Chunks(groups)) - Cardinality(good))
       /\ pc' = "lines"

\* C3 (as stated): while Part A is active, a line of k all-digit chunks of
\* which m have a temperature group with a sign digit other than 0 or 1
\* appends exactly k-m levels in the order of the line and logs m warnings.
C3_AllDigitLineAppends ==
    [][(LineStep /\ i >= 2 /\ part_a_active /\ AllDigitChunks(line')) =>
          AppendsGoodChunks]_vars

\* C3 (amended): the same of a line that does not begin with 31313, 61616
\* or 62626, which the blocks of sections 7 and 10 take first.
C3_DataLineAppends ==
    [][(LineStep /\ i >= 2 /\ part_a_active /\ AllDigitChunks(line')
           /\ ~SectionLine(line')) =>
          AppendsGoodChunks]_vars

\* a line of three chunks, one of bad sign, has been processed in Part A:
\* two levels and one warning
C3_Witness ==
    /\ pc = "lines"
    /\ uri = UriStamped
    /\ part_a_active
    /\ line = Mandatory3
    /\ Len(parsed_data.part_a_mandatory_levels) = 2
    /\ warnings = 1

\* C4: after the last line a report holds the fix of both parts or of
\* neither: a fix that only one part gave has been copied to the other.
C4_MissingFixFilled ==
    pc = "done" => (HasFix(parsed_data, "a") <=> HasFix(parsed_data, "b"))

\* the fixes of a report differ
FixesDiffer(data) ==
    \/ ~FloatEq(FixOf(data, "a")[1], FixOf(data, "b")[1])
    \/ ~FloatEq(FixOf(data, "a")[2], FixOf(data, "b")[2])

\* C5: when the verification has run on reports that hold both fixes, every
\* report whose fixes differ is the one a mismatch is reported of.
C5_EveryMismatchFlagged ==
    (pc = "verified"
     /\ \A k \in 1..Len(directory) :
            HasFix(directory[k], "a") /\ HasFix(directory[k], "b")) =>
        \A k \in 1..Len(directory) :
            FixesDiffer(directory[k]) =>
                (verified.result = "False" /\ verified.file = k)

\* the point geometry of a fix
PointOf(fix) == Some([type |-> "Point", coordinates |-> <<fix[2], fix[1]>>])

\* C6: the geometry of the item is the point of the Part A fix when it is
\* present, of the Part B fix when only that is present, null when neither.
C6_GeometryFallsBackToPartB ==
    pc = "converted" =>
        stac_item[1].geometry =
            IF HasFix(parsed_data, "a") THEN PointOf(FixOf(parsed_data, "a"))
            ELSE IF HasFix(parsed_data, "b") THEN PointOf(FixOf(parsed_data, "b"))
            ELSE None

\* C7: whatever the source identifier, parse_temp_drop goes past the
\* derivation of the timestamp with a message date, that of the identifier
\* or the current time.
C7_AlwaysDated == pc # "start" => message_date # None

\* parse_temp_drop has returned the report of a message of two lines, the
\* second of at least three tokens
TwoLineReport ==
    /\ pc \in {"done", "converted", "verified"}
          \/ (pc = "raised" /\ verified # NotVerified)
    /\ i = 2
    /\ Len(Split(line)) >= 3

FlagsAfter(marker_a, marker_b) ==
    /\ ~(part_a_active' /\ part_b_active')
    /\ marker_a => (part_a_active' /\ ~part_b_active')
    /\ marker_b => (part_b_active' /\ ~part_a_active')
    /\ (~marker_a /\ ~marker_b) =>
           UNCHANGED <<part_a_active, part_b_active>>
    /\ i = 0 => (~part_a_active /\ ~part_b_active)

\* C18 (as stated): the flags are never both true; both are false until the
\* first part marker line is read; reading a part marker line makes the
\* flag of its part the one that is true, and any other line leaves the
\* flags alone.
C18_FlagsFollowMarkers ==
    [][LineStep => FlagsAfter(StartsWith(line', XXAA), StartsWith(line', XXBB))]_vars

\* C18 (amended): the same of the part marker lines at index 2 or later; a
\* line at index 0 or 1 is a header line and leaves both flags false.
C18_FlagsFollowDataMarkers ==
    [][LineStep => FlagsAfter(i >= 2 /\ StartsWith(line', XXAA),
                              i >= 2 /\ StartsWith(line', XXBB))]_vars

\* XXAA with a fix and then XXBB have been read: Part B is the active one
C18_Witness ==
    /\ pc = "lines"
    /\ i = 4
    /\ line = PartB_Fix
    /\ HasFix(parsed_data, "a")
    /\ part_b_active
    /\ ~part_a_active

\* C23: when the line at index 1 has fewer than three tokens, the header
\* keeps only what the line at index 0 stored, a warning is logged and the
\* loop goes on with the next line.
C23_ShortHeaderLineWarns ==
    [][(LineStep /\ i = 1 /\ Len(Split(line')) < 3) =>
          /\ parsed_data' = parsed_data
          /\ pc' = "lines"
          /\ warnings' > warnings]_vars

\* C28: after parse_temp_drop returns, the header holds for each part the
\* latitude and the longitude, both with the sign of the quadrant code, or
\* neither: a marker line whose decode fails midway leaves no latitude
\* without a longitude and none without its sign.
C28_FixWholeOrAbsent ==
    pc = "done" =>
        \A P \in {"a", "b"} :
            LET h == parsed_data.header
                K == PartKeys[P]
            IN /\ Has(h, K.latitude) <=> Has(h, K.longitude)
               /\ Has(h, K.latitude) =>
                      /\ Has(h, K.quadrant)
                      /\ h[K.latitude].neg = (h[K.quadrant] \in {3, 5})
                      /\ h[K.longitude].neg = (h[K.quadrant] \in {5, 7})

\* C29: a line after the two header lines that begins with XXAA or XXBB
\* switches the active part, also when it has fewer than five tokens or
\* its decode fails, and the loop goes on: the line that follows it is
\* dispatched to the handlers of the part it names and changes no sequence
\* of the other part.
C29_MarkerAlwaysSwitches ==
    [][/\ (LineStep /\ i >= 2 /\ MarkerLine(line')) =>
              /\ pc' = "lines"
              /\ part_a_active' = StartsWith(line', XXAA)
              /\ part_b_active' = StartsWith(line', XXBB)
       /\ (LineStep /\ i >= 3 /\ MarkerLine(line) /\ ~MarkerLine(line')) =>
              /\ part_a_active = StartsWith(line, XXAA)
              /\ part_b_active = StartsWith(line, XXBB)
              /\ StartsWith(line, XXBB) =>
                     /\ parsed_data'.part_a_mandatory_levels =
                            parsed_data.part_a_mandatory_levels
                     /\ parsed_data'.part_a_tropopause = parsed_data.part_a_tropopause
                     /\ parsed_data'.part_a_max_wind = parsed_data.part_a_max_wind
              /\ StartsWith(line, XXAA) =>
                     /\ parsed_data'.part_b_significant_temp_humidity =
                            parsed_data.part_b_significant_temp_humidity
                     /\ parsed_data'.part_b_significant_wind =
                            parsed_data.part_b_significant_wind]_vars

-----------------------------------------------------------------------------
(* Properties of the group decoders, under SpecDecode *)

\* the number that the digits a..b of a group write
RECURSIVE DigitsValue(_, _, _)
DigitsValue(g, a, b) ==
    IF b < a THEN 0 ELSE 10 * DigitsValue(g, a, b - 1) + DigitVal(g[b])

C9_Wind ==
    (pc = "wind" /\ FiveDigits(group)) =>
        LET ddd == DigitsValue(group, 1, 3)
            ff == DigitsValue(group, 4, 5)
        IN /\ decoded = Returned(<<IF ddd = 999 THEN None ELSE Some(ddd), ff>>)
           /\ (group = <<"0", "0", "0", "0", "0">> =>
                   decoded.val = <<Some(0), 0>>)
           /\ (group = <<"9", "9", "9", "1", "2">> =>
                   decoded.val = <<None, 12>>)

\* the group 99912 has been decoded to no direction and the speed 12
C9_Witness ==
    /\ pc = "wind"
    /\ group = <<"9", "9", "9", "1", "2">>
    /\ decoded = Returned(<<None, 12>>)

\* C10: for every group of five digits decode_temp_dewpoint returns a
\* temperature whose magnitude is the first three digits in tenths, of
\* positive sign when the fourth digit is 0 and of negative sign when it is
\* 1, and raises a ValueError for every fourth digit in 2..9.
C10_Temperature ==
    (pc = "temp_dewpoint" /\ FiveDigits(group)) =>
        LET TTT == DigitsValue(group, 1, 3)
            Ta == DigitVal(group[4])
        IN IF Ta \in {0, 1}
           THEN /\ decoded.exc = "none"
                /\ decoded.val[1] = Float(Ta = 1, TTT)
           ELSE decoded.exc = "ValueError"

\* a group with the sign digit 1 has been decoded to a negative temperature
C10_Witness ==
    /\ pc = "temp_dewpoint"
    /\ group = <<"1", "2", "5", "1", "9">>
    /\ decoded.exc = "none"
    /\ decoded.val[1] = Float(TRUE, 125)

\* C11: for every group of five digits with the sign digit 0 or 1
\* decode_temp_dewpoint, the parser's and the catalogue's, returns a
\* dew-point depression of as many whole degrees as the fifth digit says
\* (the parser's floats are in tenths, the catalogue's integer in degrees).
C11_DepressionWholeDegrees ==
    (FiveDigits(group) /\ group[4] \in {"0", "1"}) =>
        /\ pc = "temp_dewpoint" =>
               /\ decoded.exc = "none"
               /\ FloatEq(decoded.val[2], Float(FALSE, 10 * DigitVal(group[5])))
        /\ pc = "catalog_temp_dewpoint" =>
               decoded.val[2] = Some(DigitVal(group[5]))

\* C12: each decoder raises, and returns no value, for every group that is
\* not made of exactly five digits.
C12_MalformedGroupRejected ==
    (pc \in {"pressure_height", "temp_dewpoint", "wind"} /\ ~FiveDigits(group)) =>
        decoded.exc # "none"

-----------------------------------------------------------------------------
(* Properties of one pass of the loop, under SpecLine *)

\* a part marker line of at least five tokens, the four after the marker of
\* five digits, the latitude token beginning with 99
WellFormedHeader(l) ==
    LET parts == Split(l)
    IN /\ Len(parts) >= 5
       /\ parts[1] \in {XXAA, XXBB}
       /\ \A k \in 2..5 : FiveDigits(parts[k])
       /\ Slice(parts[3], 0, 2) = <<"9", "9">>

\* C13: a part marker line of at least five well-formed tokens gives its
\* part the latitude of the three digits after 99, in tenths, negated exactly
\* for the quadrant codes 3 and 5, and the longitude of the four digits
\* after the quadrant code, in tenths, negated exactly for the codes 5 and 7.
C13_QuadrantSigns ==
    (pc # "line" /\ WellFormedHeader(line)) =>
        LET parts == Split(line)
            K == PartKeys[IF parts[1] = XXAA THEN "a" ELSE "b"]
            quadrant == DigitVal(parts[4][1])
        IN /\ pc = "read"
           /\ Has(parsed_data.header, K.latitude)
           /\ Has(parsed_data.header, K.longitude)
           /\ parsed_data.header[K.latitude] =
                  Float(quadrant \in {3, 5}, DigitsValue(parts[3], 3, 5))
           /\ parsed_data.header[K.longitude] =
                  Float(quadrant \in {5, 7}, DigitsValue(parts[4], 2, 5))

\* a Part B marker line of quadrant 7 has been read: 10.0 north, 80.0 west
C13_Witness ==
    /\ pc = "read"
    /\ line = XXBB \o <<" ", "7", "3", "2", "3", "7", " ", "9", "9", "1", "0", "0", " ", "7", "0", "8", "0", "0", " ", "0", "8", "1", "6", "7">>
    /\ parsed_data.header["part_b_latitude"] = Float(FALSE, 100)
    /\ parsed_data.header["part_b_longitude"] = Float(TRUE, 800)

\* a line of the sounding system: 31313 and two groups of five digits
WellFormedSounding(l) ==
    LET parts == Split(l)
    IN /\ Len(parts) >= 3
       /\ parts[1] = <<"3", "1", "3", "1", "3">>
       /\ FiveDigits(parts[2])
       /\ FiveDigits(parts[3])

\* C14: a well-formed line of the sounding system is decoded whichever part
\* is active, and its record goes to the active part: the slot of Part A
\* takes it when Part A is active and is left alone when Part B or no part
\* is active.
C14_SoundingSystemOfActivePart ==
    (pc # "line" /\ WellFormedSounding(line)) =>
        /\ pc = "read"
        /\ part_a_active => parsed_data.part_a_sounding_system # None
        /\ ~part_a_active => parsed_data.part_a_sounding_system = None

\* a line of three groups of five digits that begins with the marker
ThreeGroups(l, marker) ==
    LET parts == Split(l)
    IN /\ Len(parts) = 3
       /\ \A k \in 1..3 : FiveDigits(parts[k])
       /\ StartsWith(l, marker)

\* C19: while Part A is active, a line 88PPP TTTaD dddff of three groups of
\* five digits, the first not 88999 and the sign digit 0 or 1, sets the
\* tropopause record to the decoded pressure, temperature, depression and
\* wind and appends no mandatory level; a line whose first token is 88999
\* sets the record to "not observed".
C19_TropopauseLine ==
    (pc # "line" /\ part_a_active /\ StartsWith(line, <<"8", "8">>)) =>
        LET parts == Split(line)
            td == decode_temp_dewpoint(parts[2]).val
            w == decode_wind(parts[3]).val
        IN /\ parts[1] = <<"8", "8", "9", "9", "9">> =>
                  parsed_data.part_a_tropopause = Some([not_observed |-> TRUE])
           /\ (/\ ThreeGroups(line, <<"8", "8">>)
               /\ parts[1] # <<"8", "8", "9", "9", "9">>
               /\ parts[2][4] \in {"0", "1"}) =>
                  /\ parsed_data.part_a_tropopause =
                         Some([pressure_mb |-> DigitsValue(parts[1], 3, 5),
                               temperature_c |-> td[1],
                               dew_point_depression_c |-> td[2],
                               wind_direction_deg |-> w[1],
                               wind_speed_kt |-> w[2]])
                  /\ parsed_data.part_a_mandatory_levels = <<>>

\* C20: while Part A is active, a line 77PPP dddff or 66PPP dddff sets the
\* max-wind record to the decoded pressure and wind, a line 77PPP dddff
\* 4vvaa also to the shear of its third group, and no mandatory level is
\* appended.
C20_MaxWindLine ==
    (pc # "line" /\ part_a_active
     /\ (StartsWith(line, <<"7", "7">>) \/ StartsWith(line, <<"6", "6">>))
     /\ Len(Split(line)) \in {2, 3}
     /\ \A k \in 1..Len(Split(line)) : FiveDigits(Split(line)[k])
     /\ Split(line)[1] # <<"7", "7", "9", "9", "9">>) =>
        LET parts == Split(line)
            w == decode_wind(parts[2]).val
            record == [indicator |-> Slice(parts[1], 0, 2),
                       pressure_mb |-> DigitsValue(parts[1], 3, 5),
                       wind_direction_deg |-> w[1],
                       wind_speed_kt |-> w[2]]
            shear == [below_max_wind_kt |-> DigitsValue(parts[3], 2, 3),
                      above_max_wind_kt |-> DigitsValue(parts[3], 4, 5)]
        IN /\ parsed_data.part_a_mandatory_levels = <<>>
           /\ parsed_data.part_a_max_wind =
                  IF Len(parts) = 3 /\ parts[3][1] = "4"
                  THEN Some([indicator |-> record.indicator,
                             pressure_mb |-> record.pressure_mb,
                             wind_direction_deg |-> record.wind_direction_deg,
                             wind_speed_kt |-> record.wind_speed_kt,
                             vertical_wind_shear |-> shear])
                  ELSE Some(record)

\* a pass of the loop over the line of the pool
PassStep == pc = "line" /\ pc' # "line"

\* a line of k >= 1 pairs of groups of five digits
PairLine(l) ==
    LET groups == Split(l)
    IN /\ Len(groups) >= 2
       /\ Len(groups) % 2 = 0
       /\ \A k \in 1..Len(groups) : FiveDigits(groups[k])

\* the marker 21212 and k >= 1 pairs of groups of five digits
WindLine(l) ==
    LET groups == Split(l)
    IN /\ Len(groups) >= 3
       /\ Len(groups) % 2 = 1
       /\ groups[1] = <<"2", "1", "2", "1", "2">>
       /\ \A k \in 1..Len(groups) : FiveDigits(groups[k])

\* the entry of a pair: the level number of the first two digits, the
\* pressure of the last three, and the second group decoded
TempEntry(g1, g2) ==
    LET td == decode_temp_dewpoint(g2).val
    IN [level_number |-> DigitsValue(g1, 1, 2),
        pressure_mb |-> DigitsValue(g1, 3, 5),
        temperature_c |-> td[1],
        dew_point_depression_c |-> td[2]]

WindEntry(g1, g2) ==
    LET w == decode_wind(g2).val
    IN [level_number |-> DigitsValue(g1, 1, 2),
        pressure_mb |-> DigitsValue(g1, 3, 5),
        wind_direction_deg |-> w[1],
        wind_speed_kt |-> w[2]]

\* the entries of the pairs of the set good, in the order of the line
TempEntries(groups, good) ==
    [n \in 1..Cardinality(good) |->
        TempEntry(groups[2 * Nth(good, n) - 1], groups[2 * Nth(good, n)])]

WindEntries(groups) ==
    [n \in 1..(Len(groups) \div 2) |-> WindEntry(groups[2 * n - 1], groups[2 * n])]

Pairs(groups) == 1..(Len(groups) \div 2)

\* the pairs whose temperature group has the sign digit 0 or 1
GoodSignPairs(groups) == {c \in Pairs(groups) : groups[2 * c][4] \in {"0", "1"}}

\* the line 21212 and its pairs append their entries to the significant
\* winds, in the order of the line, and none to the temperatures
WindLineAppends ==
    WindLine(line) =>
        /\ Len(parsed_data'.part_b_significant_wind) =
               Len(parsed_data.part_b_significant_wind) + (Len(Split(line)) - 1) \div 2
        /\ parsed_data'.part_b_significant_wind =
               parsed_data.part_b_significant_wind
                   \o WindEntries(SubSeq(Split(line), 2, Len(Split(line))))
        /\ parsed_data'.part_b_significant_temp_humidity =
               parsed_data.part_b_significant_temp_humidity

\* C21 (as stated): while Part B is active, a line of k pairs of five-digit
\* groups appends exactly k entries to the significant temperatures, in the
\* order of the line, and none to the significant winds; a line 21212 with
\* k pairs appends exactly k entries to the significant winds and none to
\* the temperatures.
C21_PairLineAppends ==
    [][(PassStep /\ part_b_active) =>
          /\ PairLine(line) =>
                 /\ Len(parsed_data'.part_b_significant_temp_humidity) =
                        Len(parsed_data.part_b_significant_temp_humidity)
                            + Len(Split(line)) \div 2
                 /\ parsed_data'.part_b_significant_temp_humidity =
                        parsed_data.part_b_significant_temp_humidity
                            \o TempEntries(Split(line), Pairs(Split(line)))
                 /\ parsed_data'.part_b_significant_wind =
                        parsed_data.part_b_significant_wind
          /\ WindLineAppends]_vars

\* C21 (amended): the same of a line of pairs that does not begin with
\* 31313, 61616 or 62626, and of the pairs whose temperature group has the
\* sign digit 0 or 1: the other pairs are dropped, a warning for each.
C21_DataPairLineAppends ==
    [][(PassStep /\ part_b_active) =>
          /\ (PairLine(line) /\ ~SectionLine(line)) =>
                 /\ parsed_data'.part_b_significant_temp_humidity =
                        parsed_data.part_b_significant_temp_humidity
                            \o TempEntries(Split(line), GoodSignPairs(Split(line)))
                 /\ parsed_data'.part_b_significant_wind =
                        parsed_data.part_b_significant_wind
                 /\ warnings' = warnings + Cardinality(Pairs(Split(line)))
                                     - Cardinality(GoodSignPairs(Split(line)))
          /\ WindLineAppends]_vars

\* after a line of the temperatures and one of the winds, a line of two
\* pairs with a bad sign digit in the second has been read in Part B: one
\* more temperature entry after the first, the winds as they were
C21_Witness ==
    /\ pc = "read"
    /\ part_b_active
    /\ i = 6
    /\ line = <<"1", "1", "8", "5", "0", " ", "1", "2", "3", "0", "5", " ",
                "2", "2", "7", "0", "0", " ", "0", "5", "6", "7", "2">>
    /\ Len(parsed_data.part_b_significant_temp_humidity) = 2
    /\ parsed_data.part_b_significant_temp_humidity[2].level_number = 11
    /\ Len(parsed_data.part_b_significant_wind) = 2
    /\ warnings = 2

\* a line that no block of the loop recognizes, whatever part is active
Unrecognized(l) ==
    /\ ~MarkerLine(l)
    /\ ~SectionLine(l)
    /\ ~AllDigitChunks(l)
    /\ ~PairLine(l)
    /\ \A prefix \in {<<"8", "8">>, <<"7", "7">>, <<"6", "6">>,
                       <<"2", "1", "2", "1", "2">>} : ~StartsWith(l, prefix)

\* C22: a line changes only the sequences of the active part. While Part A
\* is not active no line changes the mandatory levels, the tropopause or
\* the max wind; while Part B is not active no line changes the significant
\* temperatures or winds; a line that no pattern recognizes leaves the
\* whole report as it was.
C22_OnlyActivePartChanges ==
    [][PassStep =>
          /\ ~part_a_active =>
                 /\ parsed_data'.part_a_mandatory_levels =
                        parsed_data.part_a_mandatory_levels
                 /\ parsed_data'.part_a_tropopause = parsed_data.part_a_tropopause
                 /\ parsed_data'.part_a_max_wind = parsed_data.part_a_max_wind
          /\ ~part_b_active =>
                 /\ parsed_data'.part_b_significant_temp_humidity =
                        parsed_data.part_b_significant_temp_humidity
                 /\ parsed_data'.part_b_significant_wind =
                        parsed_data.part_b_significant_wind
          /\ Unrecognized(line) =>
                 /\ parsed_data' = parsed_data
                 /\ pc' = "read"]_vars

\* a line of a mandatory level has been read while Part B was active, after
\* the lines of Part A: the level, the tropopause and the max wind of Part A
\* are there as before, and nothing else
C22_Witness ==
    /\ pc = "read"
    /\ part_b_active
    /\ i = 8
    /\ line = Mandatory1
    /\ Len(parsed_data.part_a_mandatory_levels) = 1
    /\ parsed_data.part_a_tropopause # None
    /\ parsed_data.part_a_max_wind # None
    /\ parsed_data.part_b_significant_temp_humidity = <<>>

\* the entries of the secondary decodes, in the order of RemarkKeyNames
ParsedKeyNames ==
    <<"mbl_wnd_parsed", "aev_parsed", "dlm_wnd_parsed", "wl_parsed",
      "rel_parsed", "spg_parsed", "eyewall_parsed">>

\* the text of the k-th key matches what its secondary decode expects: a
\* time or a location for the release and the splash point, the pattern of
\* the key for the others
MatchesExpected(k, text) ==
    CASE k = 1 -> Search(text, MblWndPattern).ok
      [] k = 2 -> Search(text, AevPattern).ok
      [] k = 3 -> Search(text, DlmWndPattern).ok
      [] k = 4 -> Search(text, WlPattern).ok
      [] k \in {5, 6} -> Search(text, TimePattern).ok \/ Search(text, LocationPattern).ok
      [] k = 7 -> Search(text, EyewallPattern).ok

\* the remark set keeps the text of the k-th key: under the key, or as the
\* description of its decoded entry
KeepsRaw(remarks, k, text) ==
    \/ /\ Has(remarks, RemarkKeyNames[k])
       /\ remarks[RemarkKeyNames[k]] = text
    \/ /\ Has(remarks, ParsedKeyNames[k])
       /\ Has(remarks[ParsedKeyNames[k]], "description")
       /\ remarks[ParsedKeyNames[k]]["description"] = text

\* C25: for each key with a secondary decode, a segment that does not match
\* the pattern of the key keeps its raw text in the remark set after the
\* line is parsed, whatever the decodes of the other keys do.
C25_UnmatchedSegmentKept ==
    [][(PassStep /\ pc' = "read" /\ StartsWith(line, <<"6", "2", "6", "2", "6">>)) =>
          LET segmented == SegmentRemarks(parsed_data.remarks, line)
          IN \A k \in 1..7 :
                (/\ Has(segmented, RemarkKeyNames[k])
                 /\ ~MatchesExpected(k, segmented[RemarkKeyNames[k]])) =>
                    KeepsRaw(parsed_data'.remarks, k, segmented[RemarkKeyNames[k]])]_vars

\* the tokens of a 61616 line after the aircraft identifier and the
\* flight or mission id
RemainingParts(l) == SliceFrom(Split(Strip(SliceFrom(l, 6))), 2)

\* the positions of OB followed by a token of two digits
ObPositions(tokens) ==
    {k \in 1..(Len(tokens) - 1) :
        /\ tokens[k] = <<"O", "B">>
        /\ Len(tokens[k + 1]) = 2
        /\ \A c \in 1..2 : tokens[k + 1][c] \in Digits}

\* the tokens that are the value of no field of the extraction, in order
RECURSIVE Unclaimed(_, _)
Unclaimed(tokens, parsed) ==
    IF tokens = <<>> THEN <<>>
    ELSE IF \E f \in (DOMAIN parsed) \ {"additional_info"} : parsed[f] = Head(tokens)
         THEN Unclaimed(Tail(tokens), parsed)
         ELSE <<Head(tokens)>> \o Unclaimed(Tail(tokens), parsed)

\* C26: a 61616 line whose tokens after the aircraft identifier and the
\* mission id hold OB followed by a token of two digits records OB as the
\* observation indicator and that token as the storm number, whether or
\* not a storm name or an observation period comes before OB; the tokens
\* that no field claims are the free text, in order, joined by spaces; the
\* extraction never raises.
C26_ObAndStormNumber ==
    (pc # "line" /\ StartsWith(line, <<"6", "1", "6", "1", "6">>)) =>
        /\ pc = "read"
        /\ Has(parsed_data.remarks, "mission_info_parsed")
        /\ LET parsed == parsed_data.remarks["mission_info_parsed"]
               tokens == RemainingParts(line)
           IN /\ ObPositions(tokens) # {} =>
                    /\ Has(parsed, "observation_indicator")
                    /\ parsed["observation_indicator"] = <<"O", "B">>
                    /\ Has(parsed, "storm_number")
                    /\ parsed["storm_number"] = tokens[Nth(ObPositions(tokens), 1) + 1]
              /\ IF Unclaimed(tokens, parsed) = <<>>
                 THEN ~Has(parsed, "additional_info")
                 ELSE /\ Has(parsed, "additional_info")
                      /\ parsed["additional_info"] = Join(Unclaimed(tokens, parsed))

-----------------------------------------------------------------------------
(* Properties of the pass over a header line, under SpecHead *)

\* the keys that the two header lines store
HeaderLineKeys ==
    {"sonde_serial", "wmo_header", "icao_originator", "transmission_date_time_group"}

\* C27: the first two lines are consumed as the serial line and the WMO
\* header line, never as section lines: a part marker, sounding-system,
\* mission-info or remarks line at index 0 or 1 changes neither the active
\* part nor any part, level or remark field of the report.
C27_HeaderLinesNeverSections ==
    [][(PassStep /\ i < 2) =>
          /\ pc' = "read"
          /\ ~part_a_active' /\ ~part_b_active'
          /\ (DOMAIN parsed_data'.header) \subseteq HeaderLineKeys
          /\ i = 0 => parsed_data'.header = DictSet(EmptyDict, "sonde_serial", line)
          /\ [parsed_data' EXCEPT !.header = EmptyDict]
                 = [parsed_data EXCEPT !.header = EmptyDict]]_vars

\* a Part A marker line of five tokens has been read at index 1: its first
\* token is the WMO header, no part is active and no fix is stored
C27_Witness ==
    /\ pc = "read"
    /\ i = 2
    /\ StartsWith(line, XXAA)
    /\ Len(Split(line)) = 5
    /\ ~part_a_active
    /\ parsed_data.header["wmo_header"] = XXAA
    /\ ~Has(parsed_data.header, "part_a_latitude")

-----------------------------------------------------------------------------
(* Properties of the repeated decoding, under SpecTwice *)

\* the second-to-last piece of the identifier is YYYYMMDDHHMM: twelve
\* digits of a month, a day that every such month has, an hour, a minute
CarriesTimestamp(f) ==
    LET pieces == SplitDot(f)
        stamp == pieces[Len(pieces) - 1]
        month == DigitsValue(stamp, 5, 6)
    IN /\ Len(pieces) >= 2
       /\ Len(stamp) = 12
       /\ \A k \in 1..12 : stamp[k] \in Digits
       /\ DigitsValue(stamp, 1, 4) >= 1
       /\ month \in 1..12
       /\ DigitsValue(stamp, 7, 8) \in 1..(IF month = 2 THEN 28 ELSE 30)
       /\ DigitsValue(stamp, 9, 10) < 24
       /\ DigitsValue(stamp, 11, 12) < 60

RECURSIVE SegmentsOf(_, _, _)
SegmentsOf(lines, n, remarks) ==
    IF n > Len(lines) THEN remarks
    ELSE SegmentsOf(lines, n + 1,
                    IF StartsWith(lines[n], <<"6", "2", "6", "2", "6">>)
                    THEN SegmentRemarks(remarks, lines[n])
                    ELSE remarks)

\* the remark set of a message whose segments are all joined before the
\* secondary decodes run
JoinedRemarks(lines) ==
    RemarksLine([InitialReport EXCEPT !.remarks = SegmentsOf(lines, 3, EmptyDict)],
                <<"6", "2", "6", "2", "6">>).data.remarks

\* C24: the text before the first key is stored as the initial description,
\* every segment after a key under that key, and the segments of a key that
\* recurs, in one remarks line or across several, are joined in order by
\* one space before the secondary decode runs.
C24_RecurringKeyJoined ==
    (pc # "decode" /\ exc = "none") =>
        DictDel(DictDel(parsed_data.remarks, "mission_info"), "mission_info_parsed")
            = JoinedRemarks(message)

-----------------------------------------------------------------------------
(* Properties of the archive mode, under SpecBatch *)

\* C15: in archive mode the processing of a message is invoked exactly
\* once, in order, for every identifier that the lister yields: the
\* summary is reached, and by then the identifiers attempted are those
\* listed, whatever failed on the way.
C15_EveryListedMessageProcessed ==
    <>(pc = "summary" /\ attempted = urls)

\* the attempts made so far are the identifiers listed so far, and no more
\* items are uploaded than were attempted
BatchInOrder ==
    /\ attempted = SubSeq(urls, 1, i)
    /\ successful <= Len(attempted)

\* the decoding of the first message raised, and the second is in hand
C15_Witness ==
    /\ pc = "fetch"
    /\ i = 2
    /\ exc = "IndexError"
    /\ attempted = SubSeq(urls, 1, 2)

\* C30: in archive mode, whatever the outcomes of the messages so far,
\* 'successful' never exceeds 'attempted', 'attempted' counts the
\* identifiers taken from the lister so far, 'successful' grows by one
\* exactly when an upload returns without error and by nothing otherwise,
\* and after a failed upload the item of that message is still saved.
C30_CountersFollowOutcomes ==
    /\ [](/\ successful <= Len(attempted)
          /\ Len(attempted) = i
          /\ pc = "save" => stac_item # None)
    /\ [][/\ successful' =
              IF pc = "upload" /\ exc' = "none" THEN successful + 1
                                              ELSE successful
          /\ Len(attempted') =
              IF pc = "archive" /\ pc' = "fetch" THEN Len(attempted) + 1
                                                ELSE Len(attempted)
          /\ pc = "upload" => /\ pc' = "save"
                              /\ stac_item' = stac_item]_vars

\* the first item was uploaded, the upload of the second failed, and the
\* second item is about to be saved
C30_Witness ==
    /\ pc = "save"
    /\ exc = "UploadError"
    /\ i = 2
    /\ successful = 1
    /\ stac_item # None

====
